---------------------------- MODULE Spec2Model ----------------------------
(***************************************************************************)
(* A model of the stackalloc analyzer (harriteja/gostackallocator):        *)
(*   - the usage/escape tracker and the pattern classifier that            *)
(*     InspectFile runs over a file's syntax tree (analyzer/inspector.go,  *)
(*     analyzer/patterns.go);                                              *)
(*   - the FixTracker's per-file edit map (analyzer/analyzer.go);          *)
(*   - the AutoFixer's application of edits to a file's bytes              *)
(*     (analyzer/autofix.go).                                              *)
(*   - the reporting of findings and the entry points run and runWithDeps  *)
(*     (analyzer/analyzer.go).                                             *)
(* Several specifications share the variables, each exercising one part:   *)
(* SpecInspect (one traversal of one file), SpecFix (AddFix on one         *)
(* FixTracker), SpecFlush (AddFix, then ApplyAllFixes), SpecApply (direct  *)
(* calls of ApplyFixesToFile), SpecConc (goroutines on one FixTracker),   *)
(* SpecRun (run and runWithDeps) and SpecDetect (DetectPattern on one      *)
(* node).  Spec is their union.                                            *)
(***************************************************************************)
EXTENDS Integers, Sequences, FiniteSets, TLC

VARIABLES
    mode,        \* which part of the program this behaviour exercises
    \* ---- InspectFile (inspector.go) ----
    file,        \* the function body being walked: a sequence of statements
    stack,       \* nodes ast.Inspect has still to visit, next one first
    allocSites,  \* usageTracker.allocSites : types.Object -> token.Pos
    useCounts,   \* usageTracker.useCounts  : types.Object -> int
    escapes,     \* usageTracker.escapes    : types.Object -> bool
    issues,      \* the calls of report(pos, msg), in order
    pc,          \* "walk" (first pass), "summary" (second pass), "done"; "detect" before DetectPattern
    pending,     \* second pass: keys of allocSites the range loop has not yet seen
    \* ---- FixTracker / AutoFixer (analyzer.go, autofix.go) ----
    fixes,       \* FixTracker.fixes : filename -> []analysis.TextEdit
    src,         \* the bytes of each file when it was parsed (the token.FileSet's view)
    disk,        \* the file system: filename -> what the file holds
    lastCall,    \* the last call made on the tracker / fixer, with its arguments and outcome
    nCalls,      \* number of calls made so far (bounds the behaviour)
    \* ---- goroutines on the FixTracker (analyzer.go) ----
    mu,          \* FixTracker.mu: 0 when unlocked, else the goroutine holding it
    procs,       \* goroutine -> the call it makes, where it is in it, its locals
    \* ---- run / runWithDeps (analyzer.go) ----
    config,      \* the *Config of the run
    run          \* the run: entry point, collaborators, position, what it reported

vars == <<mode, file, stack, allocSites, useCounts, escapes, issues, pc, pending,
          fixes, src, disk, lastCall, nCalls, mu, procs, config, run>>

inspectVars == <<file, stack, allocSites, useCounts, escapes, issues, pc, pending>>
fixVars == <<fixes, src, disk, lastCall, nCalls>>
concVars == <<mu, procs>>
runVars == <<config, run>>

\* DefaultConfig(), with the fields the model reads.
DefaultConfig ==
    [AutoFix |-> FALSE, OpenAIDisable |-> FALSE, OpenAIAPIKey |-> "", DisablePatterns |-> {}]

\* No goroutine is on the tracker and no run is under way.
NoRun ==
    /\ mu = 0
    /\ procs = <<>>
    /\ config = DefaultConfig
    /\ run = [entry |-> "none"]

(***************************************************************************)
(* Maps with Go's semantics: a key is present or not, and reading an       *)
(* absent key gives the zero value.                                        *)
(***************************************************************************)
EmptyMap == [k \in {} |-> 0]
MapHas(m, k) == k \in DOMAIN m
MapGet(m, k, zero) == IF k \in DOMAIN m THEN m[k] ELSE zero
MapPut(m, k, v) == [j \in (DOMAIN m) \cup {k} |-> IF j = k THEN v ELSE m[j]]

(***************************************************************************)
(* Syntax trees.  Every node is a record of one shape:                     *)
(*   kind  the ast node type                                               *)
(*   pos   node.Pos()                                                      *)
(*   op    the operator of a UnaryExpr                                     *)
(*   name  the identifier's text (ast.Ident.Name)                          *)
(*   obj   what info.ObjectOf resolves an identifier to (NoObj: nil)       *)
(*   tk    the kind of info.TypeOf(expr).Underlying()                      *)
(*   nlhs  AssignStmt: len(Lhs); kids is Lhs followed by Rhs               *)
(*   kids  the children, in the order ast.Inspect visits them              *)
(*         (CallExpr: Fun, then Args)                                      *)
(***************************************************************************)
NoObj == "nil"

Node(kind, pos, op, name, obj, tk, nlhs, kids, lit) ==
    [kind |-> kind, pos |-> pos, op |-> op, name |-> name, obj |-> obj,
     tk |-> tk, nlhs |-> nlhs, kids |-> kids, lit |-> lit]

\* The objects of the analysed package, as the type checker resolves them:
\* x, y, p are variables of the function, g is a package-level variable,
\* use(int) and sink(*int) are functions of the package.
LocalVars == {"x", "y", "p"}
PkgVars == {"g"}
Builtins == {"new", "make", "append"}

ObjKind(o) ==
    IF o \in LocalVars THEN "localvar"
    ELSE IF o \in PkgVars THEN "pkgvar"
    ELSE IF o \in Builtins THEN "builtin"
    ELSE IF o = "int" THEN "typename"
    ELSE IF o = "fmt" THEN "pkgname"
    ELSE IF o = NoObj THEN "none"
    ELSE "func"

TypeOfObj(o) ==
    IF o = "x" \/ o = "g" \/ o = "int" THEN "basic"
    ELSE IF o = "y" \/ o = "p" THEN "pointer"
    ELSE "other"

Ident(pos, name) == Node("Ident", pos, "", name, name, TypeOfObj(name), 0, <<>>, <<>>)
IntLit(pos, text) == Node("BasicLit", pos, "INT", "", NoObj, "basic", 0, <<>>, text)
AddrOf(pos, x) == Node("UnaryExpr", pos, "&", "", NoObj, "pointer", 0, <<x>>, <<>>)
Deref(pos, x) == Node("StarExpr", pos, "", "", NoObj, "basic", 0, <<x>>, <<>>)
Selector(pos, pkg, sel) ==
    Node("SelectorExpr", pos, "", "", NoObj, "other", 0,
         <<Ident(pos, pkg), Ident(pos + 4, sel)>>, <<>>)
Call(pos, fun, args, tk) == Node("CallExpr", pos, "", "", NoObj, tk, 0, <<fun>> \o args, <<>>)
Assign(pos, lhs, rhs) ==
    Node("AssignStmt", pos, "", "", NoObj, "other", Len(lhs), lhs \o rhs, <<>>)
Return(pos, results) == Node("ReturnStmt", pos, "", "", NoObj, "other", 0, results, <<>>)
ExprStmt(pos, x) == Node("ExprStmt", pos, "", "", NoObj, "other", 0, <<x>>, <<>>)
NewInt(pos) == Call(pos, Ident(pos, "new"), <<Ident(pos + 4, "int")>>, "pointer")
\* The blank identifier: info.ObjectOf gives nil for it.
Blank(pos) == Node("Ident", pos, "", "_", NoObj, "other", 0, <<>>, <<>>)
\* []int
SliceOfInt(pos) == Node("ArrayType", pos, "", "", NoObj, "slice", 0, <<Ident(pos + 2, "int")>>, <<>>)
\* make([]int, size)
MakeSlice(pos, size) ==
    Call(pos, Ident(pos, "make"), <<SliceOfInt(pos + 5), IntLit(pos + 12, size)>>, "slice")

\* map[int]int and chan int
MapOfInt(pos) ==
    Node("MapType", pos, "", "", NoObj, "map", 0, <<Ident(pos + 4, "int"), Ident(pos + 8, "int")>>, <<>>)
ChanOfInt(pos) == Node("ChanType", pos, "", "", NoObj, "chan", 0, <<Ident(pos + 5, "int")>>, <<>>)
StringLit(pos, text) == Node("BasicLit", pos, "STRING", "", NoObj, "string", 0, <<>>, text)
\* A composite literal: typ is <<>> where the type is elided, tk is the
\* underlying type the checker gives the literal.
CompositeLit(pos, tk, typ, elts) ==
    Node("CompositeLit", pos, "", "", NoObj, tk, Len(typ), typ \o elts, <<>>)
KeyValue(pos, key, value) ==
    Node("KeyValueExpr", pos, "", "", NoObj, "other", 0, <<key, value>>, <<>>)
BinaryExpr(pos, op, x, y) == Node("BinaryExpr", pos, op, "", NoObj, x.tk, 0, <<x, y>>, <<>>)
TypeAssert(pos, x) == Node("TypeAssertExpr", pos, "", "", NoObj, "basic", 0, <<x>>, <<>>)
FuncLit(pos) == Node("FuncLit", pos, "", "", NoObj, "other", 0, <<>>, <<>>)

CallFun(call) == call.kids[1]
LitElts(lit) == SubSeq(lit.kids, lit.nlhs + 1, Len(lit.kids))
CallArgs(call) == Tail(call.kids)
AssignRhs(a) == SubSeq(a.kids, a.nlhs + 1, Len(a.kids))

(***************************************************************************)
(* The statements a function body is drawn from.  b is the position of the *)
(* statement's first token.                                                *)
(***************************************************************************)
\* The size literals of the make statements, by the length of their text.
SizeLits == <<<<"8">>, <<"1", "6">>, <<"1", "0", "0">>, <<"1", "0", "2", "4">>>>

MakeKinds == {"make1", "make2", "make3", "make4"}

SizeOf(k) ==
    SizeLits[CHOOSE n \in 1..Len(SizeLits) : k = <<"make1", "make2", "make3", "make4">>[n]]

StmtKinds ==
    {"yAddrX", "retAddrX", "gAddrX", "yAddrG", "retNew", "pNew", "sinkNew",
     "useDeref", "printDeref", "useX", "sinkY"} \cup MakeKinds

Stmt(k, b) ==
    CASE k = "decl"       -> Assign(b, <<Ident(b, "x")>>, <<IntLit(b + 5, <<"4", "2">>)>>)   \* x := 42
      [] k = "yAddrX"     -> Assign(b, <<Ident(b, "y")>>, <<AddrOf(b + 5, Ident(b + 6, "x"))>>) \* y := &x
      [] k = "retAddrX"   -> Return(b, <<AddrOf(b + 7, Ident(b + 8, "x"))>>)                  \* return &x
      [] k = "gAddrX"     -> Assign(b, <<Ident(b, "g")>>, <<AddrOf(b + 4, Ident(b + 5, "x"))>>) \* g = &x
      [] k = "yAddrG"     -> Assign(b, <<Ident(b, "y")>>, <<AddrOf(b + 4, Ident(b + 5, "g"))>>) \* y = &g
      [] k = "retNew"     -> Return(b, <<NewInt(b + 7)>>)                                     \* return new(int)
      [] k = "pNew"       -> Assign(b, <<Ident(b, "p")>>, <<NewInt(b + 5)>>)                  \* p := new(int)
      [] k = "sinkNew"    -> ExprStmt(b, Call(b, Ident(b, "sink"), <<NewInt(b + 5)>>, "other")) \* sink(new(int))
      [] k = "useDeref"   -> ExprStmt(b, Call(b, Ident(b, "use"),
                                             <<Deref(b + 4, Ident(b + 5, "y"))>>, "other"))   \* use(*y)
      [] k = "printDeref" -> ExprStmt(b, Call(b, Selector(b, "fmt", "Println"),
                                             <<Deref(b + 12, Ident(b + 13, "y"))>>, "other")) \* fmt.Println(*y)
      [] k = "useX"       -> ExprStmt(b, Call(b, Ident(b, "use"), <<Ident(b + 4, "x")>>, "other")) \* use(x)
      [] k = "sinkY"      -> ExprStmt(b, Call(b, Ident(b, "sink"), <<Ident(b + 5, "y")>>, "other")) \* sink(y)
      [] k \in MakeKinds  -> Assign(b, <<Blank(b)>>, <<MakeSlice(b + 4, SizeOf(k))>>)       \* _ = make([]int, 8)

\* Most statements after the declaration of x that a body may hold.
MaxStmts == 2

StmtPos(i) == 20 * i

\* A body: x := 42, then the statements ks, one per line.
Body(ks) == <<Stmt("decl", StmtPos(1))>> \o [i \in 1..Len(ks) |-> Stmt(ks[i], StmtPos(i + 1))]

BodyKinds == UNION {[1..n -> StmtKinds] : n \in 0..MaxStmts}

(***************************************************************************)
(* The pattern classifier (patterns.go).  Each operator gives the findings *)
(* the code reports for the node, in order, as <<[pos, msg]>>.             *)
(***************************************************************************)
\* A finding: report(pos, msg); arg is the name a message's %s stands for.
IssueFor(pos, msg, arg) == [pos |-> pos, msg |-> msg, arg |-> arg]
Issue(pos, msg) == IssueFor(pos, msg, "")

MsgNewGeneral ==
    "new(T) always allocates on heap; consider using stack allocation if object doesn't escape"
MsgNewInReturn ==
    "new(T) in return/assignment always allocates on heap; consider stack allocation"
MsgEscapesOnce == "pointer to %s escapes only once; consider using stack allocation"
MsgBoxing ==
    "value may be boxed when passed to interface; consider using pointer receiver if appropriate"
MsgReflect ==
    "reflection-based allocation always uses heap; consider avoiding if performance critical"
MsgSmallSlice == "small slice allocation with make(); consider using array or stack allocation"
MsgLargeSlice ==
    "large slice allocation may cause GC pressure; consider pre-allocation or streaming"
MsgZeroSlice == "make([]T) creates zero-length slice; consider using nil slice or array"
MsgSmallMap ==
    "small map with known size; consider using struct or array for better performance"
MsgMapNoHint ==
    "make(map[K]V) without size hint; consider providing capacity for better performance"
MsgSmallChan ==
    "unbuffered or small buffered channel; consider if synchronous communication is needed"
MsgAppendNil == "appending to nil slice causes allocation; consider pre-allocating with make()"
MsgAppendMany ==
    "appending multiple elements may cause multiple reallocations; consider pre-allocating capacity"
MsgSimpleFormat ==
    "simple string formatting; consider using string concatenation or strings.Builder"
MsgSprint ==
    "fmt.Sprint family functions allocate; consider using strings.Builder or direct conversion"

MsgSmallSliceLit == "small slice literal; consider using array for stack allocation"
MsgComplexSliceLit == "slice literal with complex elements may cause multiple allocations"
MsgSmallMapLit ==
    "small map literal; consider using struct or switch statement for better performance"
MsgLargeStructLit ==
    "large struct literal; consider using pointer or breaking into smaller structs"
MsgStringConcat ==
    "string concatenation with + operator allocates; consider using strings.Builder for multiple concatenations"
MsgTypeAssertion ==
    "type assertion may cause allocation if value was boxed; consider avoiding interface{} when possible"
MsgClosure ==
    "closure captures variables and may allocate; consider passing values as parameters"

\* isNewCall / isMakeCall / isAppendCall: Fun is an identifier that resolves
\* to the builtin of that name.
IsBuiltinCall(call, builtin) ==
    LET fun == CallFun(call) IN
    /\ fun.kind = "Ident"
    /\ fun.obj # NoObj
    /\ ObjKind(fun.obj) = "builtin"
    /\ fun.obj = builtin

isNewCall(call) == IsBuiltinCall(call, "new")
isMakeCall(call) == IsBuiltinCall(call, "make")
isAppendCall(call) == IsBuiltinCall(call, "append")

\* getFunctionName: "name", or "pkg.name" for a selector on an identifier.
\* The qualifier and the name are kept apart: an identifier holds no dot.
getFunctionName(call) ==
    LET fun == CallFun(call) IN
    IF fun.kind = "Ident" THEN [pkg |-> "", sel |-> fun.name]
    ELSE IF fun.kind = "SelectorExpr"
         THEN IF fun.kids[1].kind = "Ident"
              THEN [pkg |-> fun.kids[1].name, sel |-> fun.kids[2].name]
              ELSE [pkg |-> "", sel |-> fun.kids[2].name]
         ELSE [pkg |-> "", sel |-> ""]

\* The names of package reflect that start with New, MakeSlice, MakeMap or MakeChan.
ReflectAllocNames == {"New", "NewAt", "MakeSlice", "MakeMap", "MakeMapWithSize", "MakeChan"}

isReflectAllocation(call) ==
    LET f == getFunctionName(call) IN f.pkg = "reflect" /\ f.sel \in ReflectAllocNames

isStringFormattingCall(call) ==
    LET f == getFunctionName(call) IN f.pkg \in {"fmt", "strconv"}

\* tk "basic" is a numeric basic type and "string" the basic type string.
isValueTypeToInterface(expr) == expr.tk \in {"basic", "string", "struct"}

isBoxingCall(call) ==
    /\ Len(CallArgs(call)) # 0
    /\ \E i \in 1..Len(CallArgs(call)) : isValueTypeToInterface(CallArgs(call)[i])

\* isSmallConstantSize taking a literal of three characters for small too.
isSmallConstantSize_UpToThree(expr) ==
    expr.kind = "BasicLit" /\ expr.op = "INT" /\ Len(expr.lit) <= 3

isSmallConstantSize(expr) == expr.kind = "BasicLit" /\ expr.op = "INT" /\ Len(expr.lit) <= 2
isLargeSize(expr) == expr.kind = "BasicLit" /\ expr.op = "INT" /\ Len(expr.lit) >= 4
isZeroOrSmallSize(expr) ==
    /\ expr.kind = "BasicLit" /\ expr.op = "INT"
    /\ (expr.lit = <<"0">> \/ isSmallConstantSize(expr))

getTypeKind(expr) == IF expr.tk \in {"slice", "map", "chan"} THEN expr.tk ELSE "unknown"

detectMakePatterns(call) ==
    LET args == CallArgs(call) IN
    IF Len(args) = 0 THEN <<>>
    ELSE CASE getTypeKind(args[1]) = "slice" ->
                IF Len(args) >= 2
                THEN IF isSmallConstantSize(args[2]) THEN <<Issue(call.pos, MsgSmallSlice)>>
                     ELSE IF isLargeSize(args[2]) THEN <<Issue(call.pos, MsgLargeSlice)>>
                     ELSE <<>>
                ELSE <<Issue(call.pos, MsgZeroSlice)>>
           [] getTypeKind(args[1]) = "map" ->
                IF Len(args) >= 2
                THEN IF isSmallConstantSize(args[2]) THEN <<Issue(call.pos, MsgSmallMap)>>
                     ELSE <<>>
                ELSE <<Issue(call.pos, MsgMapNoHint)>>
           [] getTypeKind(args[1]) = "chan" ->
                IF Len(args) >= 2 /\ isZeroOrSmallSize(args[2])
                THEN <<Issue(call.pos, MsgSmallChan)>>
                ELSE <<>>
           [] OTHER -> <<>>

isNilSlice(expr) == expr.kind = "Ident" /\ expr.name = "nil"

\* isInLoop is the constant false in the code, so its finding never appears.
detectAppendPatterns(call) ==
    LET args == CallArgs(call) IN
    IF Len(args) < 2 THEN <<>>
    ELSE (IF isNilSlice(args[1]) THEN <<Issue(call.pos, MsgAppendNil)>> ELSE <<>>)
         \o (IF Len(args) > 3 THEN <<Issue(call.pos, MsgAppendMany)>> ELSE <<>>)

isSimpleStringFormatting(call) ==
    LET args == CallArgs(call) IN
    /\ Len(args) >= 1
    /\ args[1].kind = "BasicLit" /\ args[1].op = "STRING"
    /\ Cardinality({i \in 1..Len(args[1].lit) : args[1].lit[i] = "%"}) <= 2

\* strconv.Itoa reports only in a hot path, which the code never finds.
detectStringFormattingPatterns(call) ==
    LET f == getFunctionName(call) IN
    IF f.pkg = "fmt" /\ f.sel \in {"Sprintf", "Errorf"}
    THEN IF isSimpleStringFormatting(call) THEN <<Issue(call.pos, MsgSimpleFormat)>> ELSE <<>>
    ELSE IF f.pkg = "fmt" /\ f.sel \in {"Sprint", "Sprintln"}
    THEN <<Issue(call.pos, MsgSprint)>>
    ELSE <<>>

detectCallPatterns(call) ==
    IF isNewCall(call) THEN <<Issue(call.pos, MsgNewGeneral)>>
    ELSE IF isMakeCall(call) THEN detectMakePatterns(call)
    ELSE IF isAppendCall(call) THEN detectAppendPatterns(call)
    ELSE IF isReflectAllocation(call) THEN <<Issue(call.pos, MsgReflect)>>
    ELSE IF isStringFormattingCall(call) THEN detectStringFormattingPatterns(call)
    ELSE IF isBoxingCall(call) THEN <<Issue(call.pos, MsgBoxing)>>
    ELSE <<>>

getCompositeLiteralType(lit) ==
    IF lit.tk \in {"slice", "map", "struct", "array"} THEN lit.tk ELSE "unknown"

isSmallSliceLiteral(lit) == Len(LitElts(lit)) <= 4 /\ Len(LitElts(lit)) > 0

\* isSmallMapLiteral taking a literal of four entries for small too.
isSmallMapLiteral_UpToFour(lit) == Len(LitElts(lit)) <= 4 /\ Len(LitElts(lit)) > 0

isSmallMapLiteral(lit) == Len(LitElts(lit)) <= 3 /\ Len(LitElts(lit)) > 0

isLargeStructLiteral(lit) == Len(LitElts(lit)) > 10

hasComplexElements(lit) ==
    \E i \in 1..Len(LitElts(lit)) : LitElts(lit)[i].kind \in {"CompositeLit", "CallExpr"}

\* hasEscapingStructLiteral is the constant false in the code.
detectCompositeLiteralPatterns(lit) ==
    CASE getCompositeLiteralType(lit) = "slice" ->
            (IF isSmallSliceLiteral(lit) THEN <<Issue(lit.pos, MsgSmallSliceLit)>> ELSE <<>>)
            \o (IF hasComplexElements(lit) THEN <<Issue(lit.pos, MsgComplexSliceLit)>> ELSE <<>>)
      [] getCompositeLiteralType(lit) = "map" ->
            IF isSmallMapLiteral(lit) THEN <<Issue(lit.pos, MsgSmallMapLit)>> ELSE <<>>
      [] getCompositeLiteralType(lit) = "struct" ->
            IF isLargeStructLiteral(lit) THEN <<Issue(lit.pos, MsgLargeStructLit)>> ELSE <<>>
      [] OTHER -> <<>>

isStringType(expr) == expr.tk = "string"

detectBinaryExprPatterns(expr) ==
    IF expr.op = "+" /\ isStringType(expr.kids[1]) /\ isStringType(expr.kids[2])
    THEN <<Issue(expr.pos, MsgStringConcat)>>
    ELSE <<>>

isInterfaceToConcreteAssertion(assert) == assert.kids[1].tk = "emptyinterface"

detectTypeAssertionPatterns(assert) ==
    IF isInterfaceToConcreteAssertion(assert) THEN <<Issue(assert.pos, MsgTypeAssertion)>>
    ELSE <<>>

\* capturesVariables is the constant true and isClosureToInterface the
\* constant false in the code.
detectClosurePatterns(fn) == <<Issue(fn.pos, MsgClosure)>>

DetectPattern(n) ==
    CASE n.kind = "CallExpr" -> detectCallPatterns(n)
      [] n.kind = "CompositeLit" -> detectCompositeLiteralPatterns(n)
      [] n.kind = "BinaryExpr" -> detectBinaryExprPatterns(n)
      [] n.kind = "TypeAssertExpr" -> detectTypeAssertionPatterns(n)
      [] n.kind = "FuncLit" -> detectClosurePatterns(n)
      [] OTHER -> <<>>

(***************************************************************************)
(* The usage tracker (inspector.go).  T is the tracker:                    *)
(* [sites, counts, esc] for allocSites, useCounts, escapes.                *)
(***************************************************************************)
isLocalVar(obj) == obj # NoObj /\ ObjKind(obj) = "localvar"

Incr(counts, obj) == MapPut(counts, obj, MapGet(counts, obj, 0) + 1)

\* The UnaryExpr case setting the use count to one instead of adding one.
TrackUnary_Resetting(T, n) ==
    LET x == n.kids[1] IN
    IF n.op = "&" /\ x.kind = "Ident" /\ x.obj # NoObj /\ isLocalVar(x.obj)
    THEN [T EXCEPT !.sites = MapPut(T.sites, x.obj, n.pos),
                   !.counts = MapPut(T.counts, x.obj, 1)]
    ELSE T

\* case *ast.UnaryExpr of the first pass
TrackUnary(T, n) ==
    LET x == n.kids[1] IN
    IF n.op = "&" /\ x.kind = "Ident" /\ x.obj # NoObj /\ isLocalVar(x.obj)
    THEN [T EXCEPT !.sites = MapPut(T.sites, x.obj, n.pos),
                   !.counts = Incr(T.counts, x.obj)]
    ELSE T

RECURSIVE TrackCallArgs(_, _)
\* case *ast.CallExpr of the first pass: the loop over expr.Args
TrackCallArgs(T, args) ==
    IF args = <<>> THEN T
    ELSE LET a == Head(args)
             T1 == IF a.kind = "Ident" /\ a.obj # NoObj /\ MapHas(T.sites, a.obj)
                   THEN [T EXCEPT !.counts = Incr(T.counts, a.obj)]
                   ELSE T
         IN TrackCallArgs(T1, Tail(args))

\* The Ident case counting nothing.
TrackIdent_NotCounting(T, n) == T

\* case *ast.Ident of the first pass
TrackIdent(T, n) ==
    IF n.obj # NoObj /\ MapHas(T.sites, n.obj)
    THEN [T EXCEPT !.counts = Incr(T.counts, n.obj)]
    ELSE T

\* checkEscapingAllocation without its case for call expressions.
checkEscapingAllocation_NoCallCase(T, e) ==
    IF e.kind = "UnaryExpr"
    THEN LET x == e.kids[1] IN
         IF e.op = "&" /\ x.kind = "Ident" /\ x.obj # NoObj /\ MapHas(T.sites, x.obj)
         THEN [T |-> [T EXCEPT !.esc = MapPut(T.esc, x.obj, TRUE)], out |-> <<>>]
         ELSE [T |-> T, out |-> <<>>]
    ELSE [T |-> T, out |-> <<>>]

\* checkEscapingAllocation: the tracker after it, and what it reports.
checkEscapingAllocation(T, e) ==
    IF e.kind = "UnaryExpr"
    THEN LET x == e.kids[1] IN
         IF e.op = "&" /\ x.kind = "Ident" /\ x.obj # NoObj /\ MapHas(T.sites, x.obj)
         THEN [T |-> [T EXCEPT !.esc = MapPut(T.esc, x.obj, TRUE)], out |-> <<>>]
         ELSE [T |-> T, out |-> <<>>]
    ELSE IF e.kind = "CallExpr" /\ isNewCall(e)
    THEN [T |-> T, out |-> <<Issue(e.pos, MsgNewInReturn)>>]
    ELSE [T |-> T, out |-> <<>>]

RECURSIVE CheckEscapingAll(_, _)
\* cases *ast.ReturnStmt and *ast.AssignStmt: the loop over Results / Rhs
CheckEscapingAll(T, es) ==
    IF es = <<>> THEN [T |-> T, out |-> <<>>]
    ELSE LET r1 == checkEscapingAllocation(T, Head(es))
             r2 == CheckEscapingAll(r1.T, Tail(es))
         IN [T |-> r2.T, out |-> r1.out \o r2.out]

\* The second pass's test on one key of allocSites.
SingleUseEscape_IgnoringUses(counts, esc, obj) == MapGet(esc, obj, FALSE)

SingleUseEscape(counts, esc, obj) == MapGet(counts, obj, 0) <= 1 /\ MapGet(esc, obj, FALSE)

Tracker == [sites |-> allocSites, counts |-> useCounts, esc |-> escapes]

SetTracker(T) ==
    /\ allocSites' = T.sites
    /\ useCounts' = T.counts
    /\ escapes' = T.esc

(***************************************************************************)
(* InspectFile.  ast.Inspect visits the nodes in depth-first order, a node *)
(* before its children; the callback always returns true.  Each Visit      *)
(* action is one call of the callback: DetectPattern first, then the       *)
(* switch on the node's type.                                              *)
(***************************************************************************)
\* The -disable-patterns flag: not given, or naming the detector of new().
DisableFlags == {{}, {"new-allocation"}}

InitInspect ==
    /\ mode = "inspect"
    /\ mu = 0
    /\ procs = <<>>
    /\ \E dp \in DisableFlags : config = [DefaultConfig EXCEPT !.DisablePatterns = dp]
    /\ run = [entry |-> "none"]
    /\ \E ks \in BodyKinds : file = Body(ks)
    /\ stack = file
    /\ allocSites = EmptyMap
    /\ useCounts = EmptyMap
    /\ escapes = EmptyMap
    /\ issues = <<>>
    /\ pc = "walk"
    /\ pending = {}
    /\ fixes = EmptyMap
    /\ src = EmptyMap
    /\ disk = EmptyMap
    /\ lastCall = [op |-> "none"]
    /\ nCalls = 0

Visiting(kind) ==
    /\ mode = "inspect"
    /\ pc = "walk"
    /\ stack # <<>>
    /\ Head(stack).kind = kind

Descend ==
    /\ stack' = Head(stack).kids \o Tail(stack)
    /\ UNCHANGED <<mode, concVars, runVars, file, pc, pending, fixVars>>

VisitUnary ==
    /\ Visiting("UnaryExpr")
    /\ SetTracker(TrackUnary(Tracker, Head(stack)))
    /\ issues' = issues \o DetectPattern(Head(stack))
    /\ Descend

VisitCall ==
    /\ Visiting("CallExpr")
    /\ SetTracker(TrackCallArgs(Tracker, CallArgs(Head(stack))))
    /\ issues' = issues \o DetectPattern(Head(stack))
    /\ Descend

VisitIdent ==
    /\ Visiting("Ident")
    /\ SetTracker(TrackIdent(Tracker, Head(stack)))
    /\ issues' = issues \o DetectPattern(Head(stack))
    /\ Descend

VisitReturn ==
    /\ Visiting("ReturnStmt")
    /\ LET r == CheckEscapingAll(Tracker, Head(stack).kids) IN
       /\ SetTracker(r.T)
       /\ issues' = issues \o DetectPattern(Head(stack)) \o r.out
    /\ Descend

VisitAssign ==
    /\ Visiting("AssignStmt")
    /\ LET r == CheckEscapingAll(Tracker, AssignRhs(Head(stack))) IN
       /\ SetTracker(r.T)
       /\ issues' = issues \o DetectPattern(Head(stack)) \o r.out
    /\ Descend

\* A node of any other type: the switch has no case for it.
VisitOther ==
    /\ \E k \in {"BasicLit", "StarExpr", "SelectorExpr", "ExprStmt", "ArrayType"} : Visiting(k)
    /\ issues' = issues \o DetectPattern(Head(stack))
    /\ UNCHANGED <<allocSites, useCounts, escapes>>
    /\ Descend

\* The traversal is over: the second pass starts to range over allocSites.
EndWalk ==
    /\ mode = "inspect"
    /\ pc = "walk"
    /\ stack = <<>>
    /\ pc' = "summary"
    /\ pending' = DOMAIN allocSites
    /\ UNCHANGED <<mode, concVars, runVars, file, stack, allocSites, useCounts, escapes, issues, fixVars>>

\* One iteration of the second pass; a map is ranged over in any order.
SecondPass ==
    /\ mode = "inspect"
    /\ pc = "summary"
    /\ \E obj \in pending :
        /\ issues' = IF SingleUseEscape(useCounts, escapes, obj)
                     THEN Append(issues, IssueFor(allocSites[obj], MsgEscapesOnce, obj))
                     ELSE issues
        /\ pending' = pending \ {obj}
    /\ UNCHANGED <<mode, concVars, runVars, file, stack, allocSites, useCounts, escapes, pc, fixVars>>

\* InspectFile returns.
EndInspect ==
    /\ mode = "inspect"
    /\ pc = "summary"
    /\ pending = {}
    /\ pc' = "done"
    /\ UNCHANGED <<mode, concVars, runVars, file, stack, allocSites, useCounts, escapes, issues, pending, fixVars>>

NextInspect ==
    \/ VisitUnary
    \/ VisitCall
    \/ VisitIdent
    \/ VisitReturn
    \/ VisitAssign
    \/ VisitOther
    \/ EndWalk
    \/ SecondPass
    \/ EndInspect

SpecInspect == InitInspect /\ [][NextInspect]_vars

(***************************************************************************)
(* Texts are sequences of one-character strings.                           *)
(***************************************************************************)
NL == "\n"

RECURSIVE Split(_)
\* strings.Split(text, "\n"): the pieces between the newlines.
Split(text) ==
    IF \A i \in 1..Len(text) : text[i] # NL THEN <<text>>
    ELSE LET k == CHOOSE i \in 1..Len(text) :
                      text[i] = NL /\ \A j \in 1..(i - 1) : text[j] # NL
         IN <<SubSeq(text, 1, k - 1)>> \o Split(SubSeq(text, k + 1, Len(text)))

\* strings.Contains(text, sub)
Contains(text, sub) ==
    \E i \in 0..(Len(text) - Len(sub)) : SubSeq(text, i + 1, i + Len(sub)) = sub

Todo == <<"T", "O", "D", "O">>

(***************************************************************************)
(* analysis.TextEdit and the token.FileSet.                                *)
(***************************************************************************)
NoPos == 0

Edit(pos, end, text) == [Pos |-> pos, End |-> end, NewText |-> text]

FileOrder == <<"a.go", "b.go">>
Files == {FileOrder[i] : i \in 1..Len(FileOrder)}

\* The files are added to the FileSet in FileOrder; the first base is 1 and
\* each file takes size + 1 positions.
RECURSIVE BaseOf(_)
BaseOf(i) == IF i = 1 THEN 1 ELSE BaseOf(i - 1) + Len(src[FileOrder[i - 1]]) + 1

FileBase(f) == BaseOf(CHOOSE i \in 1..Len(FileOrder) : FileOrder[i] = f)

InvalidPosition == [Filename |-> "", Offset |-> 0, Line |-> 0, Column |-> 0]

\* fset.Position(pos): the file that holds pos, and the line and column its
\* line table (built from the parsed bytes) gives for the offset.
LineTable(f, off, breaks) ==
    [Filename |-> f, Offset |-> off, Line |-> Cardinality(breaks) + 1,
     Column |-> off - (IF breaks = {} THEN 0
                       ELSE CHOOSE i \in breaks : \A j \in breaks : j <= i) + 1]

PositionIn(f, off) == LineTable(f, off, {i \in 1..off : src[f][i] = NL})

PositionAmong(holders, pos) ==
    IF holders = {} THEN InvalidPosition
    ELSE PositionIn(CHOOSE g \in holders : TRUE,
                    pos - FileBase(CHOOSE g \in holders : TRUE))

Position(pos) ==
    IF pos = NoPos THEN InvalidPosition
    ELSE PositionAmong({f \in DOMAIN src :
                           FileBase(f) <= pos /\ pos <= FileBase(f) + Len(src[f])}, pos)

RECURSIVE SumLineBytes(_, _)
\* The loop of tokenPosToByteOffset: len(lines[i]) + 1 over the first n lines.
SumLineBytes(lines, n) ==
    IF n = 0 THEN 0 ELSE SumLineBytes(lines, n - 1) + Len(lines[n]) + 1

\* tokenPosToByteOffset once it has position and lines.
ByteOffsetAt(position, lines) ==
    IF position.Filename = "" THEN -1
    ELSE IF position.Line <= 0 \/ position.Line > Len(lines) THEN -1
    ELSE SumLineBytes(lines, position.Line - 1)
         + (IF position.Column > 0 THEN position.Column - 1 ELSE 0)

tokenPosToByteOffset(content, pos) ==
    IF pos = NoPos THEN -1 ELSE ByteOffsetAt(Position(pos), Split(content))

\* content[:n] and content[n:] of a Go slice.
Prefix(content, n) == SubSeq(content, 1, n)
Suffix(content, n) == SubSeq(content, n + 1, Len(content))

\* applyTextEdit once it has the two offsets.
SpliceAt(content, edit, startOffset, endOffset) ==
    IF \/ startOffset < 0 \/ endOffset < 0
       \/ startOffset > Len(content) \/ endOffset > Len(content)
    THEN content
    ELSE Prefix(content, startOffset) \o edit.NewText \o Suffix(content, endOffset)

applyTextEdit(content, edit) ==
    SpliceAt(content, edit, tokenPosToByteOffset(content, edit.Pos),
             tokenPosToByteOffset(content, edit.End))

RECURSIVE ApplyInOrder(_, _)
\* The loop of ApplyFixesToFile over the sorted fixes.
ApplyInOrder(content, sorted) ==
    IF sorted = <<>> THEN content
    ELSE ApplyInOrder(applyTextEdit(content, Head(sorted)), Tail(sorted))

\* sort.Slice(fixes, Pos descending): the slice is permuted in place into an
\* order with no later element of greater Pos; the sort is not stable, so
\* elements of equal Pos may come out in any order.
SortOutcomes(edits) ==
    {s \in {[i \in 1..Len(edits) |-> edits[p[i]]] : p \in Permutations(1..Len(edits))} :
        \A i, j \in 1..Len(s) : i < j => s[i].Pos >= s[j].Pos}

\* What a file holds: its bytes before go/format laid them out, and whether
\* format.Source did (gofmt = TRUE) or failed and the bytes were kept as edited.
FileData(text, gofmt) == [text |-> text, gofmt |-> gofmt]

\* The environment of one ApplyFixesToFile call: whether ioutil.ReadFile,
\* format.Source or WriteFile fails.  A failed read ends the call, so the
\* other two then do not matter.
IoEnvs ==
    {[readFails |-> TRUE, formatFails |-> FALSE, writeFails |-> FALSE]}
    \cup [readFails : {FALSE}, formatFails : BOOLEAN, writeFails : BOOLEAN]

\* The end of ApplyFixesToFile: result is the text the edits produced; it is
\* formatted, or kept as it is when format.Source fails, and written.
WriteResult(d, filename, sorted, env, result) ==
    IF env.writeFails
    THEN [disk |-> d, err |-> "write", slice |-> sorted, edited |-> result, wrote |-> FALSE]
    ELSE [disk |-> MapPut(d, filename, FileData(result, ~env.formatFails)), err |-> "",
          slice |-> sorted, edited |-> result, wrote |-> TRUE]

\* ApplyFixesToFile returning format.Source's error instead of falling back
\* to the unformatted result.
ApplyFixesToFile_FormatErrorReturned(d, filename, edits, sorted, env) ==
    IF env.readFails \/ filename \notin DOMAIN d
    THEN [disk |-> d, err |-> "read", slice |-> edits, edited |-> <<>>, wrote |-> FALSE]
    ELSE LET result == ApplyInOrder(d[filename].text, sorted) IN
         IF env.formatFails
         THEN [disk |-> d, err |-> "format", slice |-> sorted, edited |-> result,
               wrote |-> FALSE]
         ELSE IF env.writeFails
         THEN [disk |-> d, err |-> "write", slice |-> sorted, edited |-> result,
               wrote |-> FALSE]
         ELSE [disk |-> MapPut(d, filename, FileData(result, TRUE)), err |-> "",
               slice |-> sorted, edited |-> result, wrote |-> TRUE]

\* ApplyFixesToFile(filename, fixes) on the file system d, with the order
\* "sorted" the sort leaves the slice in.  Gives the file system afterwards,
\* the error returned ("" for nil), the slice as the caller sees it
\* afterwards, and the text the edits produced (before formatting).
ApplyFixesToFile(d, filename, edits, sorted, env) ==
    IF env.readFails \/ filename \notin DOMAIN d
    THEN [disk |-> d, err |-> "read", slice |-> edits, edited |-> <<>>, wrote |-> FALSE]
    ELSE WriteResult(d, filename, sorted, env, ApplyInOrder(d[filename].text, sorted))

(***************************************************************************)
(* The FixTracker (analyzer.go).  Its methods hold ft.mu from entry to     *)
(* return, so each call is one step.                                       *)
(***************************************************************************)
\* The overlap test of AddFix with strict comparisons.
EditsOverlap_Strict(newEdit, existingEdit) ==
    newEdit.Pos < existingEdit.End /\ newEdit.End > existingEdit.Pos

\* The overlap test of AddFix.
EditsOverlap(newEdit, existingEdit) ==
    newEdit.Pos <= existingEdit.End /\ newEdit.End >= existingEdit.Pos

\* "the new one is better"
IsBetter(newEdit) == Len(newEdit.NewText) > 0 /\ ~Contains(newEdit.NewText, Todo)

\* The body of AddFix's outer loop for one new edit.
AddOneFix(existingEdits, newEdit) ==
    LET hits == {i \in 1..Len(existingEdits) : EditsOverlap(newEdit, existingEdits[i])} IN
    IF hits = {} THEN Append(existingEdits, newEdit)
    ELSE LET i == CHOOSE k \in hits : \A j \in hits : k <= j
         IN IF IsBetter(newEdit) THEN [existingEdits EXCEPT ![i] = newEdit]
            ELSE existingEdits

RECURSIVE AddFixes(_, _)
\* AddFix's loop over edits.
AddFixes(existingEdits, edits) ==
    IF edits = <<>> THEN existingEdits
    ELSE AddFixes(AddOneFix(existingEdits, Head(edits)), Tail(edits))

\* GetFilesWithFixes
GetFilesWithFixes == {f \in DOMAIN fixes : Len(fixes[f]) > 0}

NoError == [file |-> "", kind |-> ""]

\* The accumulator after ApplyFixesToFile on file f, in environment env, gave r.
AfterApply(acc, f, env, r) ==
    [disk |-> r.disk,
     fixes |-> [acc.fixes EXCEPT ![f] = r.slice],
     written |-> IF r.wrote THEN acc.written \cup {f} ELSE acc.written,
     err |-> IF r.err = "" THEN NoError ELSE [file |-> f, kind |-> r.err],
     left |-> IF r.err = "" THEN acc.left \ {f} ELSE {},
     calls |-> Append(acc.calls, [file |-> f, env |-> env, before |-> acc.disk[f].text,
                                  edited |-> r.edited, err |-> r.err])]

\* One iteration of ApplyAllFixes's loop, on file f: the outcomes that the
\* sort's order and the I/O environment allow.  acc is [disk, fixes, written,
\* err, left, calls]: the file system, ft.fixes (ApplyFixesToFile sorts the
\* slice it is handed in place), the files written, the error returned so
\* far, the keys the range loop has still to visit, and the ApplyFixesToFile
\* calls made, each with its environment and outcome.
ApplyAllStep(acc, f) ==
    IF Len(acc.fixes[f]) = 0
    THEN {[acc EXCEPT !.left = acc.left \ {f}]}
    ELSE {AfterApply(acc, f, env, ApplyFixesToFile(acc.disk, f, acc.fixes[f], sorted, env)) :
             sorted \in SortOutcomes(acc.fixes[f]), env \in IoEnvs}

RECURSIVE ApplyAllOutcomes(_)
\* ApplyAllFixes: the loop ranges over the map in any order and returns at
\* the first file whose ApplyFixesToFile returns an error.
ApplyAllOutcomes(acc) ==
    IF acc.left = {} THEN {acc}
    ELSE UNION {UNION {ApplyAllOutcomes(next) : next \in ApplyAllStep(acc, f)} : f \in acc.left}

(***************************************************************************)
(* One FixTracker, as a run uses it.  A call of AddFix carries the edits   *)
(* of one diagnostic, which FormatIssue makes exactly one.                 *)
(***************************************************************************)
\* Greatest position an edit submitted to AddFix names.
MaxPos == 3
\* Most calls made on the tracker in one behaviour.
MaxCalls == 3

FixTexts == {<<>>, <<"0">>, Todo}

FixEdits == {Edit(a, b, t) : a \in 1..MaxPos, b \in 1..MaxPos, t \in FixTexts}

\* The edits the program builds have End >= Pos.
WellFormedFixEdits == {e \in FixEdits : e.Pos <= e.End}

FixSources == [f \in Files |-> IF f = "a.go" THEN <<"a", "b", NL, "c", "d">>
                                ELSE <<"x", "y", "z">>]

InspectIdle ==
    /\ file = <<>>
    /\ stack = <<>>
    /\ allocSites = EmptyMap
    /\ useCounts = EmptyMap
    /\ escapes = EmptyMap
    /\ issues = <<>>
    /\ pc = "idle"
    /\ pending = {}

TrackerInit ==
    /\ InspectIdle
    /\ NoRun
    /\ fixes = EmptyMap
    /\ src = FixSources
    /\ disk = [f \in Files |-> FileData(FixSources[f], FALSE)]
    /\ lastCall = [op |-> "none"]
    /\ nCalls = 0

InitFix == mode = "fix" /\ TrackerInit

\* A run calls AddFix while it reports its findings and ApplyAllFixes as it
\* returns, so no AddFix follows an ApplyAllFixes.  lastCall keeps what the
\* call was handed, what the file had recorded before it, and whether the
\* call before it was handed the same.
AddFix(filename, edits) ==
    /\ mode \in {"fix", "flush"}
    /\ nCalls < MaxCalls
    /\ lastCall.op # "ApplyAllFixes"
    /\ fixes' = MapPut(fixes, filename, AddFixes(MapGet(fixes, filename, <<>>), edits))
    /\ lastCall' = [op |-> "AddFix", file |-> filename, edits |-> edits,
                    before |-> MapGet(fixes, filename, <<>>),
                    repeat |-> /\ lastCall.op = "AddFix"
                               /\ lastCall.file = filename
                               /\ lastCall.edits = edits]
    /\ nCalls' = nCalls + 1
    /\ UNCHANGED <<mode, concVars, runVars, inspectVars, src, disk>>

ApplyAllFixes ==
    /\ mode = "flush"
    /\ lastCall.op # "ApplyAllFixes"
    /\ \E r \in ApplyAllOutcomes([disk |-> disk, fixes |-> fixes, written |-> {},
                                  err |-> NoError, left |-> DOMAIN fixes,
                                  calls |-> <<>>]) :
        /\ disk' = r.disk
        /\ fixes' = r.fixes
        /\ lastCall' = [op |-> "ApplyAllFixes", had |-> GetFilesWithFixes,
                        written |-> r.written, err |-> r.err, calls |-> r.calls]
    /\ UNCHANGED <<mode, concVars, runVars, inspectVars, src, nCalls>>

\* SpecFix: the edits of one file as AddFix calls build them up.
NextFix ==
    /\ mode = "fix"
    /\ nCalls < MaxCalls
    /\ \E e \in WellFormedFixEdits : AddFix("a.go", <<e>>)

SpecFix == InitFix /\ [][NextFix]_vars

(***************************************************************************)
(* SpecFlush: a run with autofix on: AddFix for the findings of its files, *)
(* then ApplyAllFixes as the run returns.                                  *)
(***************************************************************************)
\* Greatest position of an edit, and most AddFix calls, of such a run.
MaxFlushPos == 2
MaxFlushCalls == 2

\* The edits a finding in file f may carry: ranges over its first bytes.
FlushEdits(f) ==
    {Edit(FileBase(f) + a, FileBase(f) + b, t) :
        a \in 0..(MaxFlushPos - 1), b \in 0..(MaxFlushPos - 1), t \in {<<>>, <<"0">>}}

InitFlush == mode = "flush" /\ TrackerInit

NextFlush ==
    \/ /\ mode = "flush"
       /\ nCalls < MaxFlushCalls
       /\ \E f \in Files : \E e \in {x \in FlushEdits(f) : x.Pos <= x.End} : AddFix(f, <<e>>)
    \/ ApplyAllFixes

SpecFlush == InitFlush /\ [][NextFlush]_vars

(***************************************************************************)
(* SpecApply: ApplyFixesToFile called on a.go with a slice of edits.  The  *)
(* FileSet's line table is that of the bytes parsed, which are the bytes   *)
(* on disk when the call is made.                                          *)
(***************************************************************************)
\* Most edits in the slice, and most calls in one behaviour.
MaxEdits == 2
MaxApplyCalls == 1
\* Greatest position an edit names inside the FileSet; a.go, the first file,
\* has the positions 1 .. size + 1.
MaxApplyPos == 4
\* A position past every file of the FileSet.
UnmappedPos == 20

ApplyContents == {<<"a", NL, "b">>, <<"a", "b", "c">>}
ApplyTexts == {<<>>, <<NL, "Z">>}
ApplyPositions == {NoPos} \cup 1..MaxApplyPos \cup {UnmappedPos}
ApplyEdits == {Edit(a, b, t) : a \in ApplyPositions, b \in ApplyPositions, t \in ApplyTexts}
ApplySlices == UNION {[1..n -> ApplyEdits] : n \in 0..MaxEdits}

InitApply ==
    /\ mode = "apply"
    /\ InspectIdle
    /\ NoRun
    /\ fixes = EmptyMap
    /\ \E c \in ApplyContents :
        /\ src = [FixSources EXCEPT !["a.go"] = c]
        /\ disk = [f \in Files |-> FileData(IF f = "a.go" THEN c ELSE FixSources[f], FALSE)]
    /\ lastCall = [op |-> "none"]
    /\ nCalls = 0

\* The file system and the record of the call after ApplyFixesToFile gave r.
Applied(filename, edits, r) ==
    /\ disk' = r.disk
    /\ lastCall' = [op |-> "ApplyFixesToFile", file |-> filename, edits |-> edits,
                    sorted |-> r.slice, before |-> disk[filename].text,
                    edited |-> r.edited, err |-> r.err, wrote |-> r.wrote]

ApplyFixesToFileCall(filename, edits) ==
    /\ \E sorted \in SortOutcomes(edits), env \in IoEnvs :
        Applied(filename, edits, ApplyFixesToFile(disk, filename, edits, sorted, env))
    /\ nCalls' = nCalls + 1
    /\ UNCHANGED <<mode, concVars, runVars, inspectVars, fixes, src>>

NextApply ==
    /\ mode = "apply"
    /\ nCalls < MaxApplyCalls
    /\ \E edits \in ApplySlices : ApplyFixesToFileCall("a.go", edits)

SpecApply == InitApply /\ [][NextApply]_vars

(***************************************************************************)
(* Reporting a finding (analyzer.go: FormatIssue, FormatIssueWithFixTracker *)
(* and what they call; autofix.go: GenerateAutoFixes, generateNewTFix).    *)
(* An Issue is [Pos, Message] with Pos a token.Position; texts are         *)
(* sequences of characters.                                                *)
(***************************************************************************)
\* Config.IsPatternDisabled
IsPatternDisabled(cfg, pattern) == pattern \in cfg.DisablePatterns

\* strings.Contains(msg, "new(T)") on the messages the detectors emit.
ContainsNewT(msg) == msg \in {MsgNewGeneral, MsgNewInReturn}

\* strings.Index(text, sub)
IndexOf(text, sub) ==
    LET at == {i \in 0..(Len(text) - Len(sub)) : SubSeq(text, i + 1, i + Len(sub)) = sub}
    IN IF at = {} THEN -1 ELSE CHOOSE i \in at : \A j \in at : i <= j

\* ":= new("
DefineNew ==
    <<":", "=", " ", "n", "e", "w", "(">>
\* "new("
NewOpen ==
    <<"n", "e", "w", "(">>
TypeString ==
    <<"s", "t", "r", "i", "n", "g">>
TypeInt ==
    <<"i", "n", "t">>
TypeBool ==
    <<"b", "o", "o", "l">>
TypeFloat64 ==
    <<"f", "l", "o", "a", "t", "6", "4">>
\* "/* TODO: Replace with stack allocation */"
TodoComment ==
    <<"/", "*", " ", "T", "O", "D", "O", ":", " ", "R", "e", "p", "l", "a",
      "c", "e", " ", "w", "i", "t", "h", " ", "s", "t", "a", "c", "k", " ",
      "a", "l", "l", "o", "c", "a", "t", "i", "o", "n", " ", "*", "/">>
\* "// AI suggestion: "
SuggestionPrefix ==
    <<"/", "/", " ", "A", "I", " ", "s", "u", "g", "g", "e", "s", "t", "i",
      "o", "n", ":", " ">>
\* fmt.Sprintf("// AI suggestion: %s\n", suggestion)
SuggestionComment(suggestion) == SuggestionPrefix \o suggestion \o <<NL>>

\* MockAIClient.SuggestFix: what it returns for the three kinds of message.
MockNewT ==
    <<"R", "e", "p", "l", "a", "c", "e", " ", "w", "i", "t", "h", " ", "s",
      "t", "a", "c", "k", " ", "a", "l", "l", "o", "c", "a", "t", "i", "o",
      "n", ":", " ", "v", "a", "r", " ", "v", "a", "l", "u", "e", " ", "T",
      ";", " ", "&", "v", "a", "l", "u", "e">>
MockEscapes ==
    <<"R", "e", "t", "u", "r", "n", " ", "v", "a", "l", "u", "e", " ", "i",
      "n", "s", "t", "e", "a", "d", " ", "o", "f", " ", "p", "o", "i", "n",
      "t", "e", "r">>
MockOther ==
    <<"C", "o", "n", "s", "i", "d", "e", "r", " ", "o", "p", "t", "i", "m",
      "i", "z", "i", "n", "g", " ", "t", "h", "i", "s", " ", "a", "l", "l",
      "o", "c", "a", "t", "i", "o", "n">>
MockSuggestFix(msg) ==
    IF ContainsNewT(msg) THEN MockNewT
    ELSE IF msg = MsgEscapesOnce THEN MockEscapes
    ELSE MockOther

RECURSIVE splitLinesFrom(_, _)
\* splitLines: the lines of src, without a last line that is empty.
splitLinesFrom(text, line) ==
    IF text = <<>> THEN (IF Len(line) > 0 THEN <<line>> ELSE <<>>)
    ELSE IF Head(text) = NL THEN <<line>> \o splitLinesFrom(Tail(text), <<>>)
    ELSE splitLinesFrom(Tail(text), Append(line, Head(text)))

splitLines(text) == splitLinesFrom(text, <<>>)

\* The loop that builds a snippet around line n of lines: each line with
\* its marker.
SnippetAround(lines, n) ==
    LET start == IF n - 3 > 0 THEN n - 3 ELSE 0
        end == IF Len(lines) < n + 2 THEN Len(lines) ELSE n + 2
    IN [i \in 1..(end - start) |->
            [mark |-> IF start + i - 1 = n - 1 THEN ">>> " ELSE "    ",
             line |-> lines[start + i]]]

\* GetCodeSnippet(fset, pos, src); <<>> is the empty string.
SnippetAt(position, text, lines) ==
    IF position.Line <= 0 \/ Len(text) = 0 THEN <<>>
    ELSE IF position.Line > Len(lines) THEN <<>>
    ELSE SnippetAround(lines, position.Line)

GetCodeSnippet(pos, text) == SnippetAt(Position(pos), text, splitLines(text))

\* getCodeSnippetFromPosition after the file is read: tokenPos is
\* fset.Position(token.Pos(pos.Offset)).Offset.
SnippetFrom(pos, text, tokenPos, lines) ==
    IF tokenPos = 0 /\ pos.Line > 0 /\ pos.Line <= Len(lines)
    THEN SnippetAround(lines, pos.Line)
    ELSE GetCodeSnippet(tokenPos, text)

\* getCodeSnippetFromPosition(pos, fset); readFails: ioutil.ReadFile fails.
getCodeSnippetFromPosition(d, pos, readFails) ==
    IF pos.Filename = "" THEN <<>>
    ELSE IF readFails \/ pos.Filename \notin DOMAIN d THEN <<>>
    ELSE SnippetFrom(pos, d[pos.Filename].text, Position(pos.Offset).Offset,
                     splitLines(d[pos.Filename].text))

\* What an AIClient's SuggestFix returns: a text and whether err != nil.
\* ai is "nil" (no client), "mock" (MockAIClient) or "client" (any other
\* implementation, whose answer is reply).
SuggestFix(ai, reply, msg) ==
    IF ai = "mock" THEN [text |-> MockSuggestFix(msg), err |-> FALSE] ELSE reply

\* getAISuggestion keeping the text of a failed SuggestFix.
getAISuggestion_ErrorIgnored(d, issue, ai, reply, env) ==
    IF getCodeSnippetFromPosition(d, issue.Pos, env.snippetReadFails) = <<>> THEN <<>>
    ELSE SuggestFix(ai, reply, issue.Message).text

getAISuggestion(d, issue, ai, reply, env) ==
    IF getCodeSnippetFromPosition(d, issue.Pos, env.snippetReadFails) = <<>> THEN <<>>
    ELSE IF SuggestFix(ai, reply, issue.Message).err THEN <<>>
    ELSE SuggestFix(ai, reply, issue.Message).text

\* The switch of generateNewTFix; <<>> stands for the default case.
ZeroValue(typeName) ==
    IF typeName = TypeString THEN <<"\"", "\"">>
    ELSE IF typeName = TypeInt THEN <<"0">>
    ELSE IF typeName = TypeBool THEN <<"f", "a", "l", "s", "e">>
    ELSE IF typeName = TypeFloat64 THEN <<"0", ".", "0">>
    ELSE <<>>

\* generateNewTFix on the line found: newIndex is strings.Index(line,
\* "new("), closeAt is strings.Index(line[newIndex:], ")"), lineStart the
\* bytes before the line.
NewTFixOn(line, newIndex, closeAt, lineStart) ==
    IF ~Contains(line, DefineNew) THEN <<>>
    ELSE IF newIndex = -1 THEN <<>>
    ELSE IF closeAt = -1 THEN <<>>
    ELSE IF ZeroValue(SubSeq(line, newIndex + 5, closeAt + newIndex)) = <<>> THEN <<>>
    ELSE <<Edit(lineStart + newIndex, lineStart + closeAt + newIndex + 1,
                ZeroValue(SubSeq(line, newIndex + 5, closeAt + newIndex)))>>

NewTFixIn(lines, n) ==
    IF n < 1 \/ n > Len(lines) THEN <<>>
    ELSE NewTFixOn(lines[n], IndexOf(lines[n], NewOpen),
                   IF IndexOf(lines[n], NewOpen) = -1 THEN -1
                   ELSE IndexOf(Suffix(lines[n], IndexOf(lines[n], NewOpen)), <<")">>),
                   SumLineBytes(lines, n - 1))

\* generateNewTFix: the text edits of the fix, <<>> for nil.
generateNewTFix(d, issue, env) ==
    IF issue.Pos.Filename = "" THEN <<>>
    ELSE IF env.fixReadFails \/ issue.Pos.Filename \notin DOMAIN d THEN <<>>
    ELSE NewTFixIn(Split(d[issue.Pos.Filename].text), issue.Pos.Line)

\* generateCodeFixes once GenerateAutoFixes has returned autoFixes.
CodeFixesOr(autoFixes, issue) ==
    IF Len(autoFixes) > 0 THEN autoFixes
    ELSE IF ContainsNewT(issue.Message)
         THEN <<<<Edit(issue.Pos.Offset, issue.Pos.Offset + 10, TodoComment)>>>>
    ELSE <<>>

\* GenerateAutoFixes: the fixes, each a sequence of text edits.
GenerateAutoFixes(d, issue, env) ==
    IF ContainsNewT(issue.Message)
    THEN (IF generateNewTFix(d, issue, env) # <<>> THEN <<generateNewTFix(d, issue, env)>>
          ELSE <<>>)
    ELSE <<>>

generateCodeFixes(d, issue, env) == CodeFixesOr(GenerateAutoFixes(d, issue, env), issue)

\* The comment-based suggestion of FormatIssue.
CommentFix(issue, suggestion) ==
    <<<<Edit(issue.Pos.Offset, issue.Pos.Offset, SuggestionComment(suggestion))>>>>

\* FormatIssue once it has the suggestion and, with autofix on, what
\* generateCodeFixes returned.
Diagnostic(issue, ai, cfg, suggestion, codeFixes) ==
    [Pos |-> issue.Pos.Offset, Message |-> issue.Message,
     SuggestedFixes |->
        IF ~cfg.OpenAIDisable /\ ai # "nil" /\ suggestion # <<>>
        THEN IF cfg.AutoFix
             THEN IF Len(codeFixes) > 0 THEN codeFixes ELSE CommentFix(issue, suggestion)
             ELSE CommentFix(issue, suggestion)
        ELSE <<>>]

\* FormatIssue: the diagnostic; SuggestedFixes is a sequence of fixes, each
\* the sequence of its text edits.
FormatIssue(d, issue, ai, reply, cfg, env) ==
    Diagnostic(issue, ai, cfg, getAISuggestion(d, issue, ai, reply, env),
               generateCodeFixes(d, issue, env))

RECURSIVE AllEdits(_)
\* The loop of FormatIssueWithFixTracker that appends every fix's TextEdits.
AllEdits(suggested) ==
    IF suggested = <<>> THEN <<>> ELSE Head(suggested) \o AllEdits(Tail(suggested))

\* The tracking step without its test of config.AutoFix.
TrackSuggestedFixes_AutoFixIgnored(fx, diagnostic, position, autoFix) ==
    IF Len(diagnostic.SuggestedFixes) > 0 /\ position.Filename # ""
    THEN [diagnostic |-> diagnostic, added |-> TRUE, file |-> position.Filename,
          fixes |-> MapPut(fx, position.Filename,
                           AddFixes(MapGet(fx, position.Filename, <<>>),
                                    AllEdits(diagnostic.SuggestedFixes)))]
    ELSE [diagnostic |-> diagnostic, added |-> FALSE, file |-> position.Filename,
          fixes |-> fx]

\* The part of FormatIssueWithFixTracker after FormatIssue: position is
\* fset.Position(token.Pos(issue.Pos.Offset)).
TrackSuggestedFixes(fx, diagnostic, position, autoFix) ==
    IF autoFix /\ Len(diagnostic.SuggestedFixes) > 0 /\ position.Filename # ""
    THEN [diagnostic |-> diagnostic, added |-> TRUE, file |-> position.Filename,
          fixes |-> MapPut(fx, position.Filename,
                           AddFixes(MapGet(fx, position.Filename, <<>>),
                                    AllEdits(diagnostic.SuggestedFixes)))]
    ELSE [diagnostic |-> diagnostic, added |-> FALSE, file |-> position.Filename,
          fixes |-> fx]

\* FormatIssueWithFixTracker: the diagnostic and the tracker's map after it.
FormatIssueWithFixTracker(fx, d, issue, ai, reply, cfg, env) ==
    TrackSuggestedFixes(fx, FormatIssue(d, issue, ai, reply, cfg, env),
                        Position(issue.Pos.Offset), cfg.AutoFix)

(***************************************************************************)
(* SpecConc: goroutines calling the methods of one FixTracker.  Each       *)
(* method takes ft.mu on entry and releases it, deferred, on return.       *)
(* AddFix is modelled by the statements of its body: it reads              *)
(* ft.fixes[filename] into existingEdits, runs its loop (a replacement     *)
(* writes through the slice it read; an append is seen by nobody before    *)
(* the store), and stores existingEdits back.                              *)
(***************************************************************************)
\* The goroutines, and the greatest position of the edits they submit.
NumProcs == 2
MaxConcPos == 3

Goroutines == 1..NumProcs

ConcEdits == {Edit(a, b, <<"0">>) : a \in 1..MaxConcPos, b \in 1..MaxConcPos}

ConcCalls ==
    {[op |-> "AddFix", file |-> "a.go", edits |-> <<e>>] : e \in {x \in ConcEdits : x.Pos <= x.End}}
    \cup {[op |-> "ApplyAllFixes", file |-> "", edits |-> <<>>],
          [op |-> "GetFilesWithFixes", file |-> "", edits |-> <<>>]}

\* The method takes the mutex.
Locks_AllButAddFix(op) == op # "AddFix"

\* Whether the method op takes ft.mu: all three do.
Locks(op) == op \in {"AddFix", "ApplyAllFixes", "GetFilesWithFixes"}

InitConc ==
    /\ mode = "conc"
    /\ InspectIdle
    /\ fixes = EmptyMap
    /\ src = FixSources
    /\ disk = [f \in Files |-> FileData(FixSources[f], FALSE)]
    /\ lastCall = [op |-> "none"]
    /\ nCalls = 0
    /\ mu = 0
    /\ procs \in [Goroutines -> {[call |-> c, pc |-> "start", local |-> <<>>, result |-> <<>>] :
                                    c \in ConcCalls}]
    /\ config = DefaultConfig
    /\ run = [entry |-> "none"]

At(g, op, where) == mode = "conc" /\ procs[g].call.op = op /\ procs[g].pc = where

\* ft.mu.Lock(): returns once the mutex is free, holding it.
Lock(g) ==
    /\ mode = "conc"
    /\ procs[g].pc = "start"
    /\ IF Locks(procs[g].call.op) THEN mu = 0 /\ mu' = g ELSE mu' = mu
    /\ procs' = [procs EXCEPT ![g].pc = "locked"]
    /\ UNCHANGED <<mode, inspectVars, fixVars, runVars>>

\* existingEdits := ft.fixes[filename]
AddFixRead(g) ==
    /\ At(g, "AddFix", "locked")
    /\ procs' = [procs EXCEPT ![g].pc = "loop",
                              ![g].local = MapGet(fixes, procs[g].call.file, <<>>)]
    /\ UNCHANGED <<mode, inspectVars, fixVars, mu, runVars>>

\* The loop over edits.  existingEdits[i] = newEdit writes the array that
\* ft.fixes[filename] shares; what append adds lies past that slice's length.
AddFixLoop(g) ==
    /\ At(g, "AddFix", "loop")
    /\ LET f == procs[g].call.file
           after == AddFixes(procs[g].local, procs[g].call.edits)
       IN /\ procs' = [procs EXCEPT ![g].pc = "store", ![g].local = after]
          /\ fixes' = IF f \in DOMAIN fixes
                      THEN [fixes EXCEPT ![f] = [i \in 1..Len(@) |->
                                                    IF i <= Len(after) THEN after[i] ELSE @[i]]]
                      ELSE fixes
    /\ UNCHANGED <<mode, inspectVars, src, disk, lastCall, nCalls, mu, runVars>>

\* ft.fixes[filename] = existingEdits
AddFixStore(g) ==
    /\ At(g, "AddFix", "store")
    /\ fixes' = MapPut(fixes, procs[g].call.file, procs[g].local)
    /\ procs' = [procs EXCEPT ![g].pc = "unlock"]
    /\ UNCHANGED <<mode, inspectVars, src, disk, lastCall, nCalls, mu, runVars>>

\* The body of GetFilesWithFixes.
GetFilesBody(g) ==
    /\ At(g, "GetFilesWithFixes", "locked")
    /\ procs' = [procs EXCEPT ![g].pc = "unlock", ![g].result = GetFilesWithFixes]
    /\ UNCHANGED <<mode, inspectVars, fixVars, mu, runVars>>

\* The body of ApplyAllFixes.
ApplyAllBody(g) ==
    /\ At(g, "ApplyAllFixes", "locked")
    /\ \E r \in ApplyAllOutcomes([disk |-> disk, fixes |-> fixes, written |-> {},
                                  err |-> NoError, left |-> DOMAIN fixes,
                                  calls |-> <<>>]) :
        /\ disk' = r.disk
        /\ fixes' = r.fixes
        /\ procs' = [procs EXCEPT ![g].pc = "unlock",
                                  ![g].result = [seen |-> fixes, written |-> r.written,
                                                 err |-> r.err]]
    /\ UNCHANGED <<mode, inspectVars, src, lastCall, nCalls, mu, runVars>>

\* The deferred ft.mu.Unlock(), and the return.
Unlock(g) ==
    /\ mode = "conc"
    /\ procs[g].pc = "unlock"
    /\ mu' = IF Locks(procs[g].call.op) THEN 0 ELSE mu
    /\ procs' = [procs EXCEPT ![g].pc = "done"]
    /\ UNCHANGED <<mode, inspectVars, fixVars, runVars>>

NextConc ==
    \E g \in Goroutines :
        \/ Lock(g)
        \/ AddFixRead(g)
        \/ AddFixLoop(g)
        \/ AddFixStore(g)
        \/ GetFilesBody(g)
        \/ ApplyAllBody(g)
        \/ Unlock(g)

SpecConc == InitConc /\ [][NextConc]_vars

(***************************************************************************)
(* SpecRun: one pass of the analyzer over the package's files, entered     *)
(* through run or runWithDeps: each file is inspected, each finding goes   *)
(* through ReportIssueWithAutoFix, and the deferred functions run as the   *)
(* pass returns or panics.                                                 *)
(***************************************************************************)
\* The statement of the function in a.go.
\* v := new(string)
StmtNewString ==
    <<"v", " ", ":", "=", " ", "n", "e", "w", "(", "s", "t", "r", "i", "n",
      "g", ")">>
\* v := new(int)
StmtNewInt ==
    <<"v", " ", ":", "=", " ", "n", "e", "w", "(", "i", "n", "t", ")">>
\* v := new(bool)
StmtNewBool ==
    <<"v", " ", ":", "=", " ", "n", "e", "w", "(", "b", "o", "o", "l", ")">>
\* v := new(float64)
StmtNewFloat64 ==
    <<"v", " ", ":", "=", " ", "n", "e", "w", "(", "f", "l", "o", "a", "t",
      "6", "4", ")">>
\* v := new(T)
StmtNewOther ==
    <<"v", " ", ":", "=", " ", "n", "e", "w", "(", "T", ")">>
\* use(new(int))
StmtNewArg ==
    <<"u", "s", "e", "(", "n", "e", "w", "(", "i", "n", "t", ")", ")">>
\* v := make([]int, 5)
StmtMake ==
    <<"v", " ", ":", "=", " ", "m", "a", "k", "e", "(", "[", "]", "i", "n",
      "t", ",", " ", "5", ")">>

RunStmts ==
    {StmtNewString, StmtNewInt, StmtNewBool, StmtNewFloat64, StmtNewOther, StmtNewArg,
     StmtMake}

\* "package p\nfunc f() {\n\t"
FuncOpen ==
    <<"p", "a", "c", "k", "a", "g", "e", " ", "p", NL, "f", "u", "n", "c",
      " ", "f", "(", ")", " ", "{", NL, "\t">>
\* "\n}\n"
FuncClose == <<NL, "}", NL>>

FuncFile(stmt) == FuncOpen \o stmt \o FuncClose

\* b.go: a file without a finding, or one with a new(bool) in a definition.
\* "package p\n"
PlainFile ==
    <<"p", "a", "c", "k", "a", "g", "e", " ", "p", NL>>
RunSources ==
    {[f \in Files |-> IF f = "a.go" THEN FuncFile(stmt) ELSE PlainFile] : stmt \in RunStmts}
    \cup {[f \in Files |-> IF f = "a.go" THEN FuncFile(StmtNewInt) ELSE FuncFile(StmtNewBool)]}

\* What InspectFile reports for a file of these shapes, as (offset, message)
\* in the order of the traversal: an assignment whose right side is new(T)
\* is reported by checkEscapingAllocation when the AssignStmt is visited and
\* by DetectPattern when the CallExpr is; new(T) elsewhere only by
\* DetectPattern; make([]int, 5) by detectMakePatterns.
FindingsAt(text, newAt, makeAt) ==
    IF newAt # -1
    THEN IF Contains(text, DefineNew)
         THEN <<[off |-> newAt, msg |-> MsgNewInReturn],
                [off |-> newAt, msg |-> MsgNewGeneral]>>
         ELSE <<[off |-> newAt, msg |-> MsgNewGeneral]>>
    ELSE IF makeAt # -1 THEN <<[off |-> makeAt, msg |-> MsgSmallSlice]>>
    ELSE <<>>

Findings(text) ==
    FindingsAt(text, IndexOf(text, NewOpen), IndexOf(text, <<"m", "a", "k", "e", "(">>))

\* analyzeFile / the callback of run: Issue{Pos: fset.Position(pos), Message}.
IssuesOf(f, found) ==
    [i \in 1..Len(found) |->
        [Pos |-> Position(FileBase(f) + found[i].off), Message |-> found[i].msg]]

analyzeFile(f) == IssuesOf(f, Findings(src[f]))

\* A text some AIClient answers with: "use var".
ClientText == <<"u", "s", "e", " ", "v", "a", "r">>

\* A suggestion, no suggestion, or an error (with whatever text came along).
AiReplies ==
    {[text |-> ClientText, err |-> FALSE], [text |-> <<>>, err |-> FALSE],
     [text |-> ClientText, err |-> TRUE]}

\* What SuggestFix may answer when the pass's client is ai: only a client
\* other than the mock has an answer the model must choose.
RepliesOf(ai) == IF ai = "client" THEN AiReplies ELSE {[text |-> <<>>, err |-> FALSE]}

ReportEnvs == [snippetReadFails : BOOLEAN, fixReadFails : BOOLEAN]

\* The configuration a pass runs with: DefaultConfig with what the flags set.
RunConfigs ==
    {[DefaultConfig EXCEPT !.AutoFix = a, !.OpenAIDisable = d, !.OpenAIAPIKey = k] :
        a \in BOOLEAN, d \in BOOLEAN, k \in {"", "key"}}

\* run's collaborators: a NoOpMetricsAdapter, and a MockAIClient when autofix
\* is on and no API key is given, no client otherwise.
RunEntry(cfg) ==
    [entry |-> "run", ai |-> IF cfg.AutoFix /\ cfg.OpenAIAPIKey = "" THEN "mock" ELSE "nil",
     metrics |-> TRUE, defers |-> <<"apply">>]

\* runWithDeps's collaborators are its arguments; the deferred apply is
\* registered only when metricsClient is not nil.
RunWithDepsEntry(ai, metrics) ==
    [entry |-> "runWithDeps", ai |-> ai, metrics |-> metrics,
     defers |-> IF metrics THEN <<"apply", "recover">> ELSE <<"recover">>]

NoReport == [made |-> FALSE]

\* The pass as it enters its loop over pass.Files: defers is the stack of
\* deferred functions (next to run first), next the index of the file the
\* loop comes to, queue the findings of the current file still to report,
\* reported the diagnostics handed to pass.Report, applies the calls of
\* ApplyAllFixes with the number of files then analysed.
StartRun(e) ==
    [entry |-> e.entry, ai |-> e.ai, metrics |-> e.metrics, defers |-> e.defers,
     status |-> "running", next |-> 1, queue |-> <<>>, reported |-> <<>>,
     added |-> FALSE, applies |-> <<>>, panicked |-> FALSE, last |-> NoReport]

InitRun ==
    /\ mode = "run"
    /\ InspectIdle
    /\ mu = 0
    /\ procs = <<>>
    /\ fixes = EmptyMap
    /\ src \in RunSources
    /\ disk = [f \in Files |-> FileData(src[f], TRUE)]
    /\ lastCall = [op |-> "none"]
    /\ nCalls = 0
    /\ config \in RunConfigs
    /\ \/ run = StartRun(RunEntry(config))
       \/ /\ config.OpenAIAPIKey = ""
          /\ \E ai \in {"nil", "mock", "client"}, m \in BOOLEAN :
                run = StartRun(RunWithDepsEntry(ai, m))

Running == mode = "run" /\ run.status = "running"

\* The loop over pass.Files comes to the next file and inspects it.
AnalyzeFile ==
    /\ Running
    /\ run.queue = <<>>
    /\ run.next <= Len(FileOrder)
    /\ run' = [run EXCEPT !.queue = analyzeFile(FileOrder[run.next]), !.next = run.next + 1]
    /\ UNCHANGED <<mode, concVars, config, inspectVars, fixVars>>

\* pass.Report(diagnostic) with what FormatIssueWithFixTracker returned.
Report(issue, reply, r) ==
    /\ fixes' = r.fixes
    /\ run' = [run EXCEPT !.queue = Tail(run.queue),
                          !.reported = Append(run.reported, r.diagnostic),
                          !.added = run.added \/ r.added,
                          !.last = [made |-> TRUE, issue |-> issue, reply |-> reply,
                                    diagnostic |-> r.diagnostic, added |-> r.added,
                                    file |-> r.file, before |-> fixes]]

\* ReportIssueWithAutoFix on the next finding: FormatIssueWithFixTracker,
\* then pass.Report.
ReportIssueWithAutoFix ==
    /\ Running
    /\ run.queue # <<>>
    /\ \E reply \in RepliesOf(run.ai), env \in ReportEnvs :
        Report(Head(run.queue), reply,
               FormatIssueWithFixTracker(fixes, disk, Head(run.queue), run.ai, reply,
                                         config, env))
    /\ UNCHANGED <<mode, concVars, config, inspectVars, src, disk, lastCall, nCalls>>

\* Something called inside the loop panics (the inspector on a tree it does
\* not expect, an AIClient): the function starts to unwind.
Panic ==
    /\ Running
    /\ run' = [run EXCEPT !.status = "panicking", !.panicked = TRUE]
    /\ UNCHANGED <<mode, concVars, config, inspectVars, fixVars>>

\* return nil, nil after the loop.
ReturnNil ==
    /\ Running
    /\ run.queue = <<>>
    /\ run.next > Len(FileOrder)
    /\ run' = [run EXCEPT !.status = "returning"]
    /\ UNCHANGED <<mode, concVars, config, inspectVars, fixVars>>

Unwinding == mode = "run" /\ run.status \in {"returning", "panicking"}

ApplyFailed == [Pos |-> NoPos, Message |-> "Failed to apply automatic fixes: %v",
                SuggestedFixes |-> <<>>]

Panicked == [Pos |-> NoPos, Message |-> "stackalloc panicked: %v", SuggestedFixes |-> <<>>]

\* The deferred function that records the duration and applies the fixes.
DeferredApply ==
    /\ Unwinding
    /\ run.defers # <<>>
    /\ Head(run.defers) = "apply"
    /\ IF config.AutoFix /\ GetFilesWithFixes # {}
       THEN \E r \in ApplyAllOutcomes([disk |-> disk, fixes |-> fixes, written |-> {},
                                       err |-> NoError, left |-> DOMAIN fixes,
                                       calls |-> <<>>]) :
               /\ disk' = r.disk
               /\ fixes' = r.fixes
               /\ lastCall' = [op |-> "ApplyAllFixes", had |-> GetFilesWithFixes,
                               written |-> r.written, err |-> r.err, calls |-> r.calls]
               /\ run' = [run EXCEPT
                            !.defers = Tail(run.defers),
                            !.applies = Append(run.applies,
                                               [analysed |-> run.next - 1,
                                                unreported |-> Len(run.queue)]),
                            !.reported = IF r.err = NoError THEN run.reported
                                         ELSE Append(run.reported, ApplyFailed)]
       ELSE /\ run' = [run EXCEPT !.defers = Tail(run.defers)]
            /\ UNCHANGED <<disk, fixes, lastCall>>
    /\ UNCHANGED <<mode, concVars, config, inspectVars, src, nCalls>>

\* The deferred function of runWithDeps that recovers a panic.
DeferredRecover ==
    /\ Unwinding
    /\ run.defers # <<>>
    /\ Head(run.defers) = "recover"
    /\ run' = [run EXCEPT
                 !.defers = Tail(run.defers),
                 !.status = "returning",
                 !.reported = IF run.status = "panicking"
                              THEN Append(run.reported, Panicked) ELSE run.reported]
    /\ UNCHANGED <<mode, concVars, config, inspectVars, fixVars>>

\* No deferred function is left: the call returns to the driver, or the
\* panic goes on into it.
Leave ==
    /\ Unwinding
    /\ run.defers = <<>>
    /\ run' = [run EXCEPT !.status = IF run.status = "panicking" THEN "crashed"
                                     ELSE "returned"]
    /\ UNCHANGED <<mode, concVars, config, inspectVars, fixVars>>

NextRun ==
    \/ AnalyzeFile
    \/ ReportIssueWithAutoFix
    \/ Panic
    \/ ReturnNil
    \/ DeferredApply
    \/ DeferredRecover
    \/ Leave

SpecRun == InitRun /\ [][NextRun]_vars

(***************************************************************************)
(* The program: any of the above.                                          *)
(***************************************************************************)
(***************************************************************************)
(* SpecDetect: DetectPattern as a function of one node.  The node is drawn *)
(* from literals, calls and expressions of each category DetectPattern     *)
(* serves; the one action hands it to DetectPattern with a callback that   *)
(* appends to issues.                                                      *)
(***************************************************************************)
MaxElts == 11
DetectPos == 10

\* The i-th element of a literal: the first one is of the given shape.
Element(shape, i) ==
    IF i > 1 \/ shape = "plain" THEN IntLit(DetectPos + 2 * i, <<"7">>)
    ELSE IF shape = "nested"
    THEN CompositeLit(DetectPos + 2 * i, "slice", <<>>, <<IntLit(DetectPos + 2 * i + 1, <<"7">>)>>)
    ELSE Call(DetectPos + 2 * i, Ident(DetectPos + 2 * i, "use"), <<Ident(DetectPos + 2 * i + 4, "x")>>, "basic")

ElementShapes == {"plain", "nested", "call"}

\* []T{e1, ..., en}, [n]T{...} and S{...}
ListLit(tk, n, shape) ==
    CompositeLit(DetectPos, tk, <<SliceOfInt(DetectPos)>>, [i \in 1..n |-> Element(shape, i)])

\* map[int]T{1: e1, ..., n: en}
MapLit(n, shape) ==
    CompositeLit(DetectPos, "map", <<MapOfInt(DetectPos)>>,
                 [i \in 1..n |-> KeyValue(DetectPos + 2 * i, IntLit(DetectPos + 2 * i, <<"1">>),
                                           Element(shape, i))])

\* append(first, x, ..., x) with n arguments in all
AppendCall(first, n) ==
    Call(DetectPos, Ident(DetectPos, "append"),
         [i \in 1..n |-> IF i = 1 THEN Ident(DetectPos + 7, first) ELSE Ident(DetectPos + 7 + 3 * i, "x")],
         "slice")

MakeTypes == <<SliceOfInt(DetectPos + 5), MapOfInt(DetectPos + 5), ChanOfInt(DetectPos + 5)>>

MakeCall(t, sizes) ==
    Call(DetectPos, Ident(DetectPos, "make"),
         <<MakeTypes[t]>> \o [i \in 1..Len(sizes) |-> IntLit(DetectPos + 12, sizes[i])], MakeTypes[t].tk)

MakeSizes == {<<>>, <<<<"0">>>>} \cup {<<SizeLits[i]>> : i \in 1..Len(SizeLits)}

FormatCall(sel, format) ==
    Call(DetectPos, Selector(DetectPos, "fmt", sel), <<StringLit(DetectPos + 12, format)>>, "string")

Operand(tk) == Node("Ident", DetectPos, "", "v", "v", tk, 0, <<>>, <<>>)

DetectNodes ==
    {ListLit(tk, n, shape) : tk \in {"slice", "array", "struct"}, n \in 0..MaxElts, shape \in ElementShapes}
    \cup {MapLit(n, shape) : n \in 0..MaxElts, shape \in ElementShapes}
    \cup {AppendCall(first, n) : first \in {"nil", "p"}, n \in 1..5}
    \cup {MakeCall(t, sizes) : t \in 1..3, sizes \in MakeSizes}
    \cup {FormatCall(sel, format) : sel \in {"Sprintf", "Sprint"},
                                    format \in {<<"%", "d">>, <<"%", "d", "%", "d", "%", "d">>}}
    \cup {NewInt(DetectPos), Call(DetectPos, Ident(DetectPos, "use"), <<Ident(DetectPos + 4, "x")>>, "basic"),
          Call(DetectPos, Ident(DetectPos, "sink"), <<Ident(DetectPos + 5, "p")>>, "other")}
    \cup {BinaryExpr(DetectPos, op, Operand(tk), Operand(tk)) : op \in {"+", "-"}, tk \in {"string", "basic"}}
    \cup {TypeAssert(DetectPos, Operand(tk)) : tk \in {"emptyinterface", "interface"}}
    \cup {FuncLit(DetectPos), Operand("basic")}

InitDetect ==
    /\ mode = "detect"
    /\ \E n \in DetectNodes : file = <<n>>
    /\ stack = <<>>
    /\ allocSites = EmptyMap
    /\ useCounts = EmptyMap
    /\ escapes = EmptyMap
    /\ issues = <<>>
    /\ pc = "detect"
    /\ pending = {}
    /\ NoRun
    /\ fixes = EmptyMap
    /\ src = FixSources
    /\ disk = [f \in Files |-> FileData(FixSources[f], FALSE)]
    /\ lastCall = [op |-> "none"]
    /\ nCalls = 0

\* One call DetectPattern(node, report), report appending to issues.
Detect ==
    /\ mode = "detect"
    /\ pc = "detect"
    /\ issues' = issues \o DetectPattern(file[1])
    /\ pc' = "done"
    /\ UNCHANGED <<mode, file, stack, allocSites, useCounts, escapes, pending, fixVars, concVars, runVars>>

NextDetect == Detect

SpecDetect == InitDetect /\ [][NextDetect]_vars

Init == InitInspect \/ InitFix \/ InitFlush \/ InitApply \/ InitConc \/ InitRun \/ InitDetect

Next == NextInspect \/ NextFix \/ NextFlush \/ NextApply \/ NextConc \/ NextRun \/ NextDetect

Spec == Init /\ [][Next]_vars

(***************************************************************************)
(* The syntax of the body walked, read off the tree and not off the        *)
(* tracker: what the claims about InspectFile are stated over.             *)
(***************************************************************************)
RECURSIVE PreOrder(_)
\* The nodes of a sequence of trees, in the order ast.Inspect visits them.
PreOrder(ns) ==
    IF ns = <<>> THEN <<>>
    ELSE <<Head(ns)>> \o PreOrder(Head(ns).kids) \o PreOrder(Tail(ns))

FileNodes == PreOrder(file)

IsAddrOfObj(n, obj) ==
    n.kind = "UnaryExpr" /\ n.op = "&" /\ n.kids[1].kind = "Ident" /\ n.kids[1].obj = obj

\* Indices in FileNodes of the address-of expressions on obj.
AddrTakes(obj) == {i \in 1..Len(FileNodes) : IsAddrOfObj(FileNodes[i], obj)}

\* The expressions that stand directly as a return result or an assignment's
\* right-hand side.
ReturnResults ==
    UNION {{FileNodes[i].kids[j] : j \in 1..Len(FileNodes[i].kids)} :
              i \in {k \in 1..Len(FileNodes) : FileNodes[k].kind = "ReturnStmt"}}
AssignedValues ==
    UNION {{AssignRhs(FileNodes[i])[j] : j \in 1..Len(AssignRhs(FileNodes[i]))} :
              i \in {k \in 1..Len(FileNodes) : FileNodes[k].kind = "AssignStmt"}}

FirstTake(obj) == CHOOSE i \in AddrTakes(obj) : \A j \in AddrTakes(obj) : i <= j

\* References to obj that follow its first address-of: identifiers that
\* resolve to obj after that expression's own operand.
LaterRefs(obj) ==
    {i \in 1..Len(FileNodes) :
        /\ FileNodes[i].kind = "Ident" /\ FileNodes[i].obj = obj
        /\ i > FirstTake(obj) + 1}

IssuesWith(msg) == {i \in 1..Len(issues) : issues[i].msg = msg}
IssuesAt(pos) == {i \in 1..Len(issues) : issues[i].pos = pos}
EscapesOnceFor(obj) == {i \in IssuesWith(MsgEscapesOnce) : issues[i].arg = obj}

NewCalls == {i \in 1..Len(FileNodes) : FileNodes[i].kind = "CallExpr" /\ isNewCall(FileNodes[i])}

(***************************************************************************)
(* C1. A local variable whose address is taken exactly once, in a return   *)
(* statement's result, gets exactly one "escapes only once" finding when   *)
(* InspectFile has returned, and that finding is at the address-of         *)
(* expression.                                                             *)
(***************************************************************************)
C1_TakenOnceAndReturned(obj) ==
    /\ Cardinality(AddrTakes(obj)) = 1
    /\ FileNodes[FirstTake(obj)] \in ReturnResults

C1_ReturnedAddressReportedOnce ==
    (mode = "inspect" /\ pc = "done") =>
        \A obj \in LocalVars :
            C1_TakenOnceAndReturned(obj) =>
                /\ Cardinality(IssuesWith(MsgEscapesOnce)) = 1
                /\ \A i \in IssuesWith(MsgEscapesOnce) :
                       issues[i].pos = FileNodes[FirstTake(obj)].pos

(***************************************************************************)
(* C2. Every new(T) call of the body has a finding "always allocates on    *)
(* heap" when InspectFile has returned; a call that stands directly as a   *)
(* return result or an assignment's right-hand side has exactly two        *)
(* findings at its position, the general one and the "in                   *)
(* return/assignment" one.                                                 *)
(***************************************************************************)
C2_NewCallFindings ==
    (mode = "inspect" /\ pc = "done") =>
        \A i \in NewCalls :
            LET c == FileNodes[i]
                at == IssuesAt(c.pos)
            IN /\ \E k \in at : issues[k].msg = MsgNewGeneral
               /\ (c \in ReturnResults \cup AssignedValues) =>
                      /\ Cardinality(at) = 2
                      /\ Cardinality(at \cap IssuesWith(MsgNewGeneral)) = 1
                      /\ Cardinality(at \cap IssuesWith(MsgNewInReturn)) = 1

\* A body with a new(T) returned or assigned and one that is neither has been walked.
C2_Witness ==
    /\ mode = "inspect" /\ pc = "done"
    /\ \E i, j \in NewCalls :
        /\ FileNodes[i] \in ReturnResults \cup AssignedValues
        /\ FileNodes[j] \notin ReturnResults \cup AssignedValues
        /\ Cardinality(IssuesAt(FileNodes[i].pos)) = 2
        /\ Cardinality(IssuesAt(FileNodes[j].pos)) = 1

(***************************************************************************)
(* C3. The second pass reports no "escapes only once" finding for a symbol *)
(* whose address is taken and which is referred to again afterwards (read  *)
(* or taken again), nor for a symbol none of whose address-of expressions  *)
(* stands as a return result or an assignment's right-hand side.  Stated   *)
(* from the finding's side: a symbol that has such a finding is neither.   *)
(***************************************************************************)
C3_UsedMoreThanOnce(obj) == AddrTakes(obj) # {} /\ LaterRefs(obj) # {}

C3_NeverEscapes(obj) ==
    \A i \in AddrTakes(obj) : FileNodes[i] \notin ReturnResults \cup AssignedValues

C4_LocalUseBody == Body(<<"yAddrX", "useDeref">>)

C4_NoFindingForLocalUse ==
    (mode = "inspect" /\ pc = "done" /\ file = C4_LocalUseBody) => issues = <<>>

(***************************************************************************)
(* Edits as byte ranges of the file they were computed on: the range of an *)
(* edit is [Pos, End), and two ranges overlap when they share a byte.      *)
(***************************************************************************)
SharesByte(e1, e2) == e1.Pos < e2.End /\ e2.Pos < e1.End

Recorded(f) == MapGet(fixes, f, <<>>)

C6_OverlapReplacesOrDrops ==
    (lastCall.op = "AddFix" /\ Len(lastCall.edits) = 1) =>
        LET e == lastCall.edits[1]
            old == lastCall.before
            new == Recorded(lastCall.file)
            hits == {i \in 1..Len(old) : EditsOverlap(e, old[i])}
            good == Len(e.NewText) > 0 /\ ~Contains(e.NewText, Todo)
        IN /\ hits = {} => new = Append(old, e)
           /\ (hits # {} /\ ~good) => new = old
           /\ (hits # {} /\ good) =>
                  /\ \E j \in 1..Len(new) : new[j] = e
                  /\ \A j \in 1..Len(new) : new[j] = e \/ ~EditsOverlap(e, new[j])
                  /\ \A i \in (1..Len(old)) \ hits : \E j \in 1..Len(new) : new[j] = old[i]

(***************************************************************************)
(* C7. No two edits recorded for a file have byte ranges that share a      *)
(* byte.                                                                   *)
(***************************************************************************)
C7_RecordedEditsDisjoint ==
    \A f \in DOMAIN fixes :
        \A i, j \in 1..Len(fixes[f]) : i # j => ~SharesByte(fixes[f][i], fixes[f][j])

(***************************************************************************)
(* C8. ApplyFixesToFile handed edits that lie inside the file and whose    *)
(* ranges pairwise share no byte leaves, before formatting, the original   *)
(* bytes with each range replaced by its text: the bytes between the       *)
(* ranges and the texts, in the order of the ranges.                       *)
(***************************************************************************)
C8_InRange(e, f, content) ==
    FileBase(f) <= e.Pos /\ e.Pos <= e.End /\ e.End <= FileBase(f) + Len(content)

\* The orders that put the edits by their ranges, first to last.
C8_Ascending(edits) ==
    {s \in {[i \in 1..Len(edits) |-> edits[p[i]]] : p \in Permutations(1..Len(edits))} :
        \A i, j \in 1..Len(s) : i < j => s[i].End <= s[j].Pos}

RECURSIVE C8_Spliced(_, _, _, _)
\* content from byte offset from on, with the ranges of ordered replaced.
C8_Spliced(content, base, ordered, from) ==
    IF ordered = <<>> THEN Suffix(content, from)
    ELSE SubSeq(content, from + 1, Head(ordered).Pos - base)
         \o Head(ordered).NewText
         \o C8_Spliced(content, base, Tail(ordered), Head(ordered).End - base)

C8_DisjointEditsReplaceTheirRanges ==
    (lastCall.op = "ApplyFixesToFile" /\ lastCall.err # "read") =>
        LET edits == lastCall.edits
            f == lastCall.file
        IN (/\ \A i \in 1..Len(edits) : C8_InRange(edits[i], f, lastCall.before)
            /\ \A i, j \in 1..Len(edits) : i # j => ~SharesByte(edits[i], edits[j]))
           => lastCall.edited \in
                  {C8_Spliced(lastCall.before, FileBase(f), s, 0) : s \in C8_Ascending(edits)}

(***************************************************************************)
(* C9. When ApplyAllFixes returns an error for one file, every other file  *)
(* that had recorded edits has been written.                               *)
(***************************************************************************)
C9_OtherFilesStillWritten ==
    (lastCall.op = "ApplyAllFixes" /\ lastCall.err # NoError) =>
        \A f \in lastCall.had \ {lastCall.err.file} : f \in lastCall.written

(***************************************************************************)
(* C10. What ApplyFixesToFile leaves, before formatting, is what applying  *)
(* the slice without its malformed edits (End before Pos) and without its  *)
(* edits out of range (a Pos or End that is NoPos or outside the file)     *)
(* leaves.                                                                 *)
(***************************************************************************)
C10_Resolves(pos, f, content) ==
    pos # NoPos /\ FileBase(f) <= pos /\ pos <= FileBase(f) + Len(content)

C10_Skipped(e, f, content) ==
    e.End < e.Pos \/ ~C10_Resolves(e.Pos, f, content) \/ ~C10_Resolves(e.End, f, content)

C10_BadEditsSkipped ==
    (lastCall.op = "ApplyFixesToFile" /\ lastCall.err # "read") =>
        LET Kept(e) == ~C10_Skipped(e, lastCall.file, lastCall.before)
        IN lastCall.edited = ApplyInOrder(lastCall.before, SelectSeq(lastCall.sorted, Kept))

(***************************************************************************)
(* C11. Every ApplyFixesToFile call in which the file was read,            *)
(* format.Source failed and the write succeeded has left on disk, under    *)
(* the same name, the text the edits produced, not formatted; the call     *)
(* returned no error.                                                      *)
(***************************************************************************)
C11_FormatFailed(c) == ~c.env.readFails /\ c.env.formatFails /\ ~c.env.writeFails

C11_UnformattedEditsWritten ==
    (lastCall.op = "ApplyAllFixes") =>
        \A i \in 1..Len(lastCall.calls) :
            LET c == lastCall.calls[i] IN
            C11_FormatFailed(c) =>
                /\ c.err = ""
                /\ c.file \in lastCall.written
                /\ disk[c.file] = FileData(c.edited, FALSE)

\* A file whose edits changed its text was written although formatting failed.
C11_Witness ==
    /\ lastCall.op = "ApplyAllFixes"
    /\ \E i \in 1..Len(lastCall.calls) :
        LET c == lastCall.calls[i] IN
        /\ C11_FormatFailed(c)
        /\ c.edited # c.before
        /\ disk[c.file].text = c.edited

(***************************************************************************)
(* Goroutines on the FixTracker: what running the AddFix calls one after   *)
(* another leaves, and who is inside a method's critical section.          *)
(***************************************************************************)
EditSet(edits) == {edits[i] : i \in 1..Len(edits)}

AllDone == mode = "conc" /\ \A g \in Goroutines : procs[g].pc = "done"

AddFixCallers == {g \in Goroutines : procs[g].call.op = "AddFix"}

\* The orders in which the AddFix calls can be run one after another.
CallOrders ==
    {o \in [1..Cardinality(AddFixCallers) -> AddFixCallers] :
        \A i, j \in DOMAIN o : i # j => o[i] # o[j]}

RECURSIVE RunInOrder(_, _, _)
\* The edits of file f after the calls of order o from the i-th on, starting from recorded.
RunInOrder(recorded, o, i) ==
    IF i > Len(o) THEN recorded
    ELSE RunInOrder(IF procs[o[i]].call.file = "a.go"
                    THEN AddFixes(recorded, procs[o[i]].call.edits)
                    ELSE recorded, o, i + 1)

\* Between ft.mu.Lock() returning and the deferred ft.mu.Unlock().
InCriticalSection(g) == procs[g].pc \in {"locked", "loop", "store", "unlock"}

(***************************************************************************)
(* C12. When all goroutines have returned, the edits recorded for the file *)
(* are those that running the AddFix calls one after another in some order *)
(* leaves; and if every goroutine submitted one edit and the edits'        *)
(* (non-empty) byte ranges pairwise share no byte, as many edits are       *)
(* recorded as there are goroutines.                                       *)
(***************************************************************************)
C12_SomeOrderExplains ==
    \E o \in CallOrders : EditSet(Recorded("a.go")) = EditSet(RunInOrder(<<>>, o, 1))

C12_DisjointSubmissions ==
    /\ AddFixCallers = Goroutines
    /\ \A g \in Goroutines : procs[g].call.edits[1].Pos < procs[g].call.edits[1].End
    /\ \A g, h \in Goroutines :
           g # h => ~SharesByte(procs[g].call.edits[1], procs[h].call.edits[1])

C12_ConcurrentAddFixSerializes ==
    AllDone =>
        /\ C12_SomeOrderExplains
        /\ C12_DisjointSubmissions => Len(Recorded("a.go")) = NumProcs

(***************************************************************************)
(* C13. No two goroutines are inside the critical sections of AddFix,      *)
(* ApplyAllFixes and GetFilesWithFixes at once; so while one is inside     *)
(* ApplyAllFixes or GetFilesWithFixes no AddFix is between reading the     *)
(* file's edits and storing them back.                                     *)
(***************************************************************************)
C13_MutualExclusion ==
    (mode = "conc") =>
        /\ \A g, h \in Goroutines : g # h => ~(InCriticalSection(g) /\ InCriticalSection(h))
        /\ \A g, h \in Goroutines :
               (/\ procs[g].call.op \in {"ApplyAllFixes", "GetFilesWithFixes"}
                /\ InCriticalSection(g)
                /\ procs[h].call.op = "AddFix")
               => procs[h].pc \in {"start", "done"}

\* An AddFix has read the file's edits and not yet stored them, while a
\* goroutine that called ApplyAllFixes waits for the mutex.
C13_Witness ==
    /\ mode = "conc"
    /\ \E g, h \in Goroutines :
        /\ procs[g].call.op = "AddFix" /\ procs[g].pc = "store"
        /\ procs[h].call.op = "ApplyAllFixes" /\ procs[h].pc = "start"
        /\ mu = g


(***************************************************************************)
(* C14: when there is no AI client, AI suggestions are disabled, the       *)
(* client's SuggestFix returns an error, or its suggestion is empty,       *)
(* reporting a finding gives a diagnostic with the finding's message and   *)
(* no suggested fix, records no edit, and leaves the findings after it to  *)
(* be reported: the pass is still running with the rest of its queue.      *)
(***************************************************************************)
C14_ReportStep ==
    /\ mode = "run"
    /\ run.status = "running"
    /\ run.queue # <<>>
    /\ run'.queue = Tail(run.queue)

C14_NoSuggestion ==
    \/ run.ai = "nil"
    \/ config.OpenAIDisable
    \/ run.ai = "client" /\ (run'.last.reply.err \/ run'.last.reply.text = <<>>)

C14_NoSuggestionNoFix ==
    [][(C14_ReportStep /\ C14_NoSuggestion) =>
          /\ run'.reported = Append(run.reported,
                                    [Pos |-> Head(run.queue).Pos.Offset,
                                     Message |-> Head(run.queue).Message,
                                     SuggestedFixes |-> <<>>])
          /\ fixes' = fixes
          /\ run'.status = "running"]_vars

\* With autofix on, a client's error left the first finding without a fix
\* and the second finding was reported after it.
C14_Witness ==
    /\ mode = "run"
    /\ config.AutoFix /\ ~config.OpenAIDisable
    /\ run.ai = "client"
    /\ Len(run.reported) = 2
    /\ run.last.made /\ run.last.reply.err
    /\ run.reported[2].SuggestedFixes = <<>>
    /\ run.reported[2].Message = MsgNewGeneral
    /\ fixes = run.last.before

(***************************************************************************)
(* C15: for a finding on a line "v := new(T)" with T one of string, int,   *)
(* bool, float64, the edit that is applied replaces exactly the bytes of   *)
(* new(T) with "", 0, false, 0.0 and changes no other byte of the file.    *)
(***************************************************************************)
C15_Scalars ==
    {[type |-> TypeString, zero |-> <<"\"", "\"">>],
     [type |-> TypeInt, zero |-> <<"0">>],
     [type |-> TypeBool, zero |-> <<"f", "a", "l", "s", "e">>],
     [type |-> TypeFloat64, zero |-> <<"0", ".", "0">>]}

C15_Define(t) == DefineNew \o t.type \o <<")">>

\* text with the new(T) of its "v := new(T)" replaced by T's zero value.
C15_Expected(text, t) ==
    Prefix(text, IndexOf(text, C15_Define(t)) + 3) \o t.zero
        \o Suffix(text, IndexOf(text, C15_Define(t)) + Len(C15_Define(t)))

\* The pass whose only findings are those of a "v := new(T)" in a.go.
C15_OneScalar(t) ==
    /\ mode = "run"
    /\ src["a.go"] = FuncFile(<<"v", " ">> \o C15_Define(t))
    /\ src["b.go"] = PlainFile

C15_ZeroValueReplacesNew ==
    \A t \in C15_Scalars :
        (C15_OneScalar(t) /\ lastCall.op = "ApplyAllFixes") =>
            \A k \in 1..Len(lastCall.calls) :
                (lastCall.calls[k].file = "a.go" /\ lastCall.calls[k].err # "read")
                    => lastCall.calls[k].edited = C15_Expected(lastCall.calls[k].before, t)

(***************************************************************************)
(* C16: for a new(T) finding for which no structured fix is generated      *)
(* (another T, or a line that is not "v := new(T)"), the only edit of the  *)
(* diagnostic is a zero-width insertion (Pos = End) of a comment carrying  *)
(* the suggestion: no byte of the file is replaced.                        *)
(***************************************************************************)
C16_Unstructured ==
    /\ mode = "run"
    /\ config.AutoFix
    /\ run.last.made
    /\ ContainsNewT(run.last.issue.Message)
    /\ src[run.last.issue.Pos.Filename] \in {FuncFile(StmtNewOther), FuncFile(StmtNewArg)}

C16_OnlyCommentInsertion ==
    C16_Unstructured =>
        \A i \in 1..Len(run.last.diagnostic.SuggestedFixes) :
            \A j \in 1..Len(run.last.diagnostic.SuggestedFixes[i]) :
                /\ run.last.diagnostic.SuggestedFixes[i][j].Pos
                       = run.last.diagnostic.SuggestedFixes[i][j].End
                /\ Contains(run.last.diagnostic.SuggestedFixes[i][j].NewText,
                            SuggestionPrefix)


(***************************************************************************)
(* C18: a panic raised while a file is analysed is recovered at the run    *)
(* boundary and reported as a diagnostic, and the call returns normally;   *)
(* for run and for runWithDeps.                                            *)
(***************************************************************************)
C18_Left == mode = "run" /\ run.status \in {"returned", "crashed"}

C18_PanicRecovered ==
    (C18_Left /\ run.panicked) =>
        /\ run.status = "returned"
        /\ \E i \in 1..Len(run.reported) : run.reported[i] = Panicked

(***************************************************************************)
(* C19: in a pass with autofix on in which an edit was recorded (and that  *)
(* did not panic), ApplyAllFixes is called exactly once, after every file  *)
(* was analysed and every finding reported; for run and for runWithDeps,   *)
(* with a metrics client or none.                                          *)
(***************************************************************************)
C19_AppliedOnceAfterAllFiles ==
    (C18_Left /\ ~run.panicked /\ config.AutoFix /\ run.added) =>
        /\ Len(run.applies) = 1
        /\ run.applies[1].analysed = Len(FileOrder)
        /\ run.applies[1].unreported = 0


(***************************************************************************)
(* C17: when a detector is named in the disable-patterns configuration     *)
(* (IsPatternDisabled is true for it), the walk of a file reports no       *)
(* finding of that detector: with "new-allocation" disabled, none of the   *)
(* findings about new(T).                                                  *)
(***************************************************************************)
C17_DisabledDetectorSilent ==
    (mode = "inspect" /\ IsPatternDisabled(config, "new-allocation")) =>
        \A i \in 1..Len(issues) : issues[i].msg \notin {MsgNewGeneral, MsgNewInReturn}

(***************************************************************************)
(* C20: a make of a slice type whose size argument is an integer literal   *)
(* has at most one finding when InspectFile has returned, and the length   *)
(* of the literal's text decides it: at most 2 characters, the small slice *)
(* finding; 4 or more, the large slice finding; 3, none.                   *)
(***************************************************************************)
C20_MakeSliceCalls ==
    {i \in DOMAIN FileNodes :
        /\ FileNodes[i].kind = "CallExpr"
        /\ isMakeCall(FileNodes[i])
        /\ Len(CallArgs(FileNodes[i])) >= 2
        /\ CallArgs(FileNodes[i])[1].kind = "ArrayType"
        /\ CallArgs(FileNodes[i])[2].kind = "BasicLit"
        /\ CallArgs(FileNodes[i])[2].op = "INT"}

C20_Expected(size) ==
    IF Len(size) <= 2 THEN {MsgSmallSlice}
    ELSE IF Len(size) >= 4 THEN {MsgLargeSlice}
    ELSE {}

Detected == mode = "detect" /\ pc = "done"
DetectedNode == file[1]
IsMapLit(n) == n.kind = "CompositeLit" /\ getCompositeLiteralType(n) = "map"

\* C21: a map composite literal gets exactly one "small map literal" finding
\* when it has 1 to 3 entries, and none when it has 0 or at least 4 entries.
C21_SmallMapLiteral ==
    (Detected /\ IsMapLit(DetectedNode)) =>
        Cardinality(IssuesWith(MsgSmallMapLit)) =
            (IF Len(LitElts(DetectedNode)) \in 1..3 THEN 1 ELSE 0)

C21_Witness ==
    /\ Detected /\ IsMapLit(DetectedNode)
    /\ Len(LitElts(DetectedNode)) = 3
    /\ issues = <<Issue(DetectPos, MsgSmallMapLit)>>

\* C22: for every single node passed to DetectPattern the report callback
\* is invoked at most once.
C22_AtMostOneReportPerNode == Detected => Len(issues) <= 1

(***************************************************************************)
(* The tracker over one traversal (SpecInspect).                           *)
(***************************************************************************)
Walked == mode = "inspect" /\ pc \in {"summary", "done"}

\* C23: once a site is recorded for a symbol its position never changes: a
\* later address-of of the symbol leaves the site where the first one put it.
C23_SiteNeverMoves ==
    [][\A o \in (DOMAIN allocSites) \cap (DOMAIN allocSites') : allocSites'[o] = allocSites[o]]_vars

\* C24: the tracker only moves forward: an escape flag never goes from true
\* to false, a use count never decreases, a recorded site is never lost.
C24_TrackerMovesForward ==
    [][/\ \A o \in DOMAIN escapes : escapes[o] => MapGet(escapes', o, FALSE)
       /\ \A o \in DOMAIN useCounts : MapGet(useCounts', o, 0) >= useCounts[o]
       /\ (DOMAIN allocSites) \subseteq (DOMAIN allocSites')]_vars

C24_Witness ==
    /\ Walked
    /\ MapHas(allocSites, "x")
    /\ MapGet(escapes, "x", FALSE)
    /\ MapGet(useCounts, "x", 0) >= 4

\* The references the walk meets to obj while obj has a site: identifiers
\* resolving to obj from the operand of its first address-of on.
RefsWithSite(obj) ==
    IF AddrTakes(obj) = {} THEN {}
    ELSE {i \in 1..Len(FileNodes) :
            /\ FileNodes[i].kind = "Ident" /\ FileNodes[i].obj = obj
            /\ i > FirstTake(obj)}

\* C25: each reference to a symbol that has a site, and each address-of of a
\* local symbol, adds exactly one to the symbol's use count; a call argument
\* and the operand of an address-of are one reference each.
C25_OnePerReference ==
    Walked =>
        \A o \in LocalVars :
            MapGet(useCounts, o, 0) = Cardinality(AddrTakes(o)) + Cardinality(RefsWithSite(o))

\* C26: a local symbol whose address stands directly as a return result or
\* an assignment's right-hand side has its escape flag set when the walk
\* ends, also when that is the first or only place its address is taken.
C26_ReturnedOrAssignedAddressEscapes ==
    Walked =>
        \A o \in LocalVars :
            (\E e \in ReturnResults \cup AssignedValues : IsAddrOfObj(e, o)) =>
                MapGet(escapes, o, FALSE)

\* C30: when the walk ends every symbol with a site has a use count of at
\* least two: one from the address-of, one from its operand.
C30_SiteCountedTwice ==
    Walked => \A o \in DOMAIN allocSites : MapGet(useCounts, o, 0) >= 2

C30_Witness ==
    /\ Walked
    /\ MapHas(allocSites, "x")
    /\ MapGet(useCounts, "x", 0) = 2

(***************************************************************************)
(* The fix tracker after its calls (SpecFlush, SpecFix).                   *)
(***************************************************************************)
\* C27: after ApplyAllFixes has applied the edits of a file the tracker no
\* longer holds them: GetFilesWithFixes then returns no file (and a second
\* ApplyAllFixes would find nothing to apply).
C27_AppliedEditsForgotten ==
    (lastCall.op = "ApplyAllFixes" /\ lastCall.err = NoError /\ lastCall.calls # <<>>) =>
        GetFilesWithFixes = {}

\* Two non-empty ranges that only touch: one ends where the other starts.
C28_Touching(a, b) ==
    /\ a.Pos < a.End /\ b.Pos < b.End
    /\ (a.End = b.Pos \/ b.End = a.Pos)

\* C28: AddFix treats an edit whose range only touches the recorded edit's
\* range as not overlapping it, and records both.
C28_TouchingEditsBothRecorded ==
    (/\ lastCall.op = "AddFix" /\ Len(lastCall.edits) = 1
     /\ Len(lastCall.before) = 1
     /\ C28_Touching(lastCall.before[1], lastCall.edits[1])) =>
        Recorded(lastCall.file) = Append(lastCall.before, lastCall.edits[1])

(***************************************************************************)
(* A pass without autofix (SpecRun).                                       *)
(***************************************************************************)
\* C29: when autofix is not enabled no edit is ever recorded in the fix
\* tracker and no source file is ever written, whatever the AI client
\* returns and whatever findings are produced.
C29_NoAutoFixNoEditNoWrite ==
    (mode = "run" /\ ~config.AutoFix) =>
        /\ fixes = EmptyMap
        /\ lastCall.op # "ApplyAllFixes"
        /\ disk = [f \in Files |-> FileData(src[f], TRUE)]

\* A pass without autofix that has returned after reporting a finding with
\* an AI suggestion's fix attached.
C29_Witness ==
    /\ mode = "run" /\ ~config.AutoFix
    /\ run.status = "returned"
    /\ run.ai = "client"
    /\ \E i \in 1..Len(run.reported) : Len(run.reported[i].SuggestedFixes) > 0

=============================================================================
